---- MODULE Spec2Model ----
(***************************************************************************)
(* The DGLA hash-chained ledger: blocks, proof-of-work sealing, merkle     *)
(* aggregation, chain verification, tamper detection and chain repair, in  *)
(* the four store compositions the repository builds:                      *)
(*   "base"         dgla_blockchain_store.DGLADataStore                    *)
(*   "block_repair" block_repair.SelfHealingBlockchain (a FixedKeyStore)   *)
(*   "chain_repair" chain_repair.SelfHealingDataStore                      *)
(*   "enhanced"     chain_repair_enhanced.EnhancedDataStore                *)
(*                                                                         *)
(* Strings that the code serialises or hashes are sequences of integer     *)
(* tokens.  sha256(...).hexdigest() is a symbolic digest: the preimage     *)
(* between two digest brackets, so two digests are equal exactly when      *)
(* their preimages are.  How many zeros a digest begins with, which        *)
(* mining tests, is not computed: the first test of a digest can come out  *)
(* either way, and leading_zeros keeps what the tests made so far have     *)
(* shown of each digest, so that every later test of it agrees.            *)
(***************************************************************************)
EXTENDS Integers, Sequences, FiniteSets, TLC

VARIABLES leading_zeros, store, chain, pending_data, shared_keys, fork_history,
          repair_history, clock, next_id, sealed, oob_count, key_writes,
          genesis_calls, seal_ret, add_ret, mk_list, mk_root,
          sg_payload, sg_signed, sg_fresh, sg_key, sg_out,
          verification_state, vi_out, vi_calls, dt_out,
          rc_pc, rc_new, ad_pc, ad_new, atomic,
          mb_block, mb_difficulty, mb_out, mb_calls

\* the input and the result of the merkle aggregator run on its own
merkle_vars == <<mk_list, mk_root>>

\* the payload, the envelope and the result of the codec run on its own
codec_vars == <<sg_payload, sg_signed, sg_fresh, sg_key, sg_out>>

\* the store's verification flag, the outcome of its last verification
\* call, the number of such calls, and the outcome of the last detection
guard_vars == <<verification_state, vi_out, vi_calls, dt_out>>

\* the position of a sealing that runs statement by statement and the
\* block it is building, the position of an enqueueing and the dictionary
\* it is preparing, and whether operations exclude each other
race_vars == <<rc_pc, rc_new, ad_pc, ad_new, atomic>>

\* the block, the difficulty and the result of the last mine_block run on
\* its own, and the number of such runs
mine_vars == <<mb_block, mb_difficulty, mb_out, mb_calls>>

vars == <<leading_zeros, store, chain, pending_data, shared_keys, fork_history,
          repair_history, clock, next_id, sealed, oob_count, key_writes,
          genesis_calls, seal_ret, add_ret, merkle_vars, codec_vars, guard_vars,
          race_vars, mine_vars>>

(* ------------------------------ bounds --------------------------------- *)

\* longest chain explored, genesis included
MaxChain == 3

\* most calls of create_genesis_block after construction in one behaviour
MaxGenesis == 1

\* most entries waiting in pending_data
MaxPending == 2

\* most entries enqueued in one behaviour
MaxEntries == 2

\* most out-of-band writes to a block in one behaviour
MaxOob == 1

\* most out-of-band writes to a shared key in one behaviour
MaxKeyWrites == 1

\* most out-of-band writes, to blocks and keys together, and calls of
\* create_genesis_block after construction, in one behaviour of the ledger
\* under all its operations
MaxWrites == 1

\* most records in one history list
MaxHistory == 1

\* most digests that fail the prefix test of mine_block in one behaviour:
\* the nonce increments of all its searches together
MaxFailures == 2

\* most entries handed to the merkle aggregator in MerkleSpec
MaxLeaves == 6

\* most verify_integrity calls in one behaviour
MaxCalls == 2

\* largest nonce a block handed to mine_block on its own starts with
MaxNonce == 2

\* most runs of mine_block on its own in one behaviour
MaxMines == 2

\* largest difficulty mine_block is run with on its own
MaxDifficulty == 2

(* --------------------------- program constants ------------------------- *)

\* DGLABlockchain.__init__(difficulty = 2); every store uses the default
difficulty == 2

Stores == {"base", "block_repair", "chain_repair", "enhanced"}

KeyNames == <<"primary", "secondary", "verification">>

\* key_name.upper()
upper == [primary |-> "PRIMARY", secondary |-> "SECONDARY",
          verification |-> "VERIFICATION"]

\* a key value is the tuple of its "_"-separated segments
DefaultKeys ==
    [primary      |-> <<"NB", "KEY", "5G", "PRIMARY", "12345">>,
     secondary    |-> <<"NB", "KEY", "5G", "SECONDARY", "67890">>,
     verification |-> <<"NB", "KEY", "5G", "VERIFY", "ABCDE">>]

FixedKeys ==
    [primary      |-> <<"NB", "KEY", "5G", "PRIMARY", "12345">>,
     secondary    |-> <<"NB", "KEY", "5G", "SECONDARY", "67890">>,
     verification |-> <<"NB", "KEY", "5G", "VERIFICATION", "ABCDE">>]

\* store.blockchain.shared_keys["primary"] = "TAMPERED_KEY"
TamperedKey == <<"TAMPERED", "KEY">>

\* the slices the repository's tests store
Slices == {[slice_id |-> "emergency-1", priority |-> 100],
           [slice_id |-> "consumer-1", priority |-> 50]}

\* the priority the tests write into a stored entry
TamperPriorities == {30}

(* ------------------------ serialisation and digest --------------------- *)

\* token codes of the punctuation, the dictionary keys and the string
\* values of the canonical serialisation; numbers are their own token
Code ==
    [hb |-> 1001, he |-> 1002, lbrace |-> 1003, rbrace |-> 1004,
     lbrack |-> 1005, rbrack |-> 1006,
     data |-> 1010, index |-> 1011, nonce |-> 1012, previous_hash |-> 1013,
     timestamp |-> 1014, entries |-> 1015, merkle_root |-> 1016,
     message |-> 1017, source |-> 1018, content |-> 1019, data_id |-> 1020,
     metadata |-> 1021, type |-> 1022, slice_id |-> 1023, priority |-> 1024,
     signature |-> 1025, signed_at |-> 1026, category |-> 1027,
     version |-> 1028, underscore |-> 1029]

StrCode(s) ==
    CASE s = "0" -> 1040
      [] s = "DGLA Genesis Block" -> 1041
      [] s = "Rogers 5G Security System" -> 1042
      [] s = "network_slice" -> 1043
      [] s = "network_configuration" -> 1044
      [] s = "1.0" -> 1045
      [] s = "emergency-1" -> 1050
      [] s = "consumer-1" -> 1051
      [] s = "forged" -> 1060
      [] s = "changed" -> 1061
      [] s = "NB" -> 1070
      [] s = "KEY" -> 1071
      [] s = "5G" -> 1072
      [] s = "PRIMARY" -> 1073
      [] s = "SECONDARY" -> 1074
      [] s = "VERIFY" -> 1075
      [] s = "VERIFICATION" -> 1076
      [] s = "12345" -> 1077
      [] s = "67890" -> 1078
      [] s = "ABCDE" -> 1079
      [] s = "TAMPERED" -> 1080

RECURSIVE Flatten(_)
\* concatenation of a sequence of token sequences
Flatten(ss) == IF ss = <<>> THEN <<>> ELSE Head(ss) \o Flatten(Tail(ss))

\* the characters of a key value: its segments joined by "_"
KeyString(v) ==
    Flatten([i \in 1..Len(v) |->
                IF i = 1 THEN <<StrCode(v[i])>>
                ELSE <<Code.underscore, StrCode(v[i])>>])

\* hashlib.sha256(s.encode()).hexdigest()
sha256(s) == <<Code.hb>> \o s \o <<Code.he>>

\* json.dumps(data, sort_keys=True) of a slice: the keys it has, sorted
DumpSlice(d) ==
    <<Code.lbrace, Code.priority, d.priority>>
    \o (IF "signature" \in DOMAIN d
        THEN <<Code.signature>> \o d.signature ELSE <<>>)
    \o (IF "signed_at" \in DOMAIN d
        THEN <<Code.signed_at, d.signed_at>> ELSE <<>>)
    \o <<Code.slice_id, StrCode(d.slice_id), Code.rbrace>>

\* json.dumps(..., sort_keys=True) of a signed slice
DumpSigned(c) ==
    <<Code.lbrace, Code.priority, c.priority, Code.signature>>
    \o c.signature
    \o <<Code.signed_at, c.signed_at,
         Code.slice_id, StrCode(c.slice_id), Code.rbrace>>

DumpMetadata(m) ==
    <<Code.lbrace, Code.category, StrCode(m.category),
      Code.source, StrCode(m.source),
      Code.version, StrCode(m.version), Code.rbrace>>

\* json.dumps(entry, sort_keys=True) of a pending or stored entry
DumpEntry(e) ==
    <<Code.lbrace, Code.content>> \o DumpSigned(e.content)
    \o <<Code.data_id, e.data_id>>
    \o (IF "message" \in DOMAIN e
        THEN <<Code.message, StrCode(e.message)>> ELSE <<>>)
    \o <<Code.metadata>> \o DumpMetadata(e.metadata)
    \o (IF "priority" \in DOMAIN e
        THEN <<Code.priority, e.priority>> ELSE <<>>)
    \o <<Code.timestamp, e.timestamp, Code.type, StrCode(e.type),
         Code.rbrace>>

\* json.dumps of a block's data: the genesis payload or a sealed batch
DumpData(d) ==
    IF "entries" \in DOMAIN d
    THEN <<Code.lbrace, Code.entries, Code.lbrack>>
         \o Flatten([i \in 1..Len(d.entries) |-> DumpEntry(d.entries[i])])
         \o <<Code.rbrack, Code.merkle_root>> \o d.merkle_root
         \o <<Code.rbrace>>
    ELSE <<Code.lbrace, Code.message, StrCode(d.message)>>
         \o (IF "priority" \in DOMAIN d
             THEN <<Code.priority, d.priority>> ELSE <<>>)
         \o <<Code.source, StrCode(d.source)>>
         \o (IF "type" \in DOMAIN d
             THEN <<Code.type, StrCode(d.type)>> ELSE <<>>)
         \o <<Code.rbrace>>

\* Block.calculate_hash
calculate_hash(b) ==
    sha256(<<Code.lbrace, Code.data>> \o DumpData(b.data)
           \o <<Code.index, b.index, Code.nonce, b.nonce,
                Code.previous_hash>> \o b.previous_hash
           \o <<Code.timestamp, b.timestamp, Code.rbrace>>)

\* the number of characters of a SHA-256 hexdigest
HexDigits == 64

\* the table of a program that has tested no digest yet
NoDigests == [h \in {} |-> 0]

\* what the tests made so far tell of the digest h: it begins with at
\* least .lo and at most .hi characters '0'
Known(z, h) ==
    IF h \in DOMAIN z THEN z[h] ELSE [lo |-> 0, hi |-> HexDigits]

\* hash[:d] == '0' * d can be true of h, given what z tells of h
MayPass(z, h, d) == Known(z, h).hi >= d

\* hash[:d] == '0' * d can be false of h, given what z tells of h
MayFail(z, h, d) == Known(z, h).lo < d

\* what is known of h once hash[:d] == '0' * d came out as pass
Outcome(k, d, pass) ==
    IF pass THEN [lo |-> IF k.lo > d THEN k.lo ELSE d, hi |-> k.hi]
    ELSE [lo |-> k.lo, hi |-> IF k.hi < d - 1 THEN k.hi ELSE d - 1]

\* the table z after hash[:d] == '0' * d was evaluated on h and came out
\* as pass; a test that tells nothing new leaves the table as it is
Tested(z, h, d, pass) ==
    IF Outcome(Known(z, h), d, pass) = Known(z, h) THEN z
    ELSE [x \in DOMAIN z \cup {h} |->
             IF x = h THEN Outcome(Known(z, h), d, pass) ELSE z[x]]

\* the number of digests that some test of z found too short of zeros
Failures(z) == Cardinality({h \in DOMAIN z : z[h].hi < HexDigits})

\* the test of h against d may come out false, and the failures of one
\* behaviour stay within the bound
CanFail(z, h, d) ==
    /\ MayFail(z, h, d)
    /\ Known(z, h).hi < d \/ Failures(z) < MaxFailures

\* self.hash[:difficulty] == '0' * difficulty is known to hold of h: a
\* test of the current behaviour found it
HasZeroPrefix(h, d) == Known(leading_zeros, h).lo >= d

\* self.hash[:difficulty] != target is known to hold of h: a test of the
\* current behaviour found it
FailsPrefix(h, d) == Known(leading_zeros, h).hi < d

\* one pass through the body of the loop of mine_block
NextNonce(b) ==
    [b EXCEPT !.nonce = b.nonce + 1,
              !.hash = calculate_hash([b EXCEPT !.nonce = b.nonce + 1])]

\* what a run of mine_block leaves: the block and the table of the
\* digests it tested
Mined(b, z) == [block |-> b, zeros |-> z]

RECURSIVE mine_block_StaleHash(_, _, _)
\* mine_block with the two statements of its loop swapped: the digest is
\* taken before the nonce is incremented
mine_block_StaleHash(b, d, z) ==
    (IF MayPass(z, b.hash, d)
     THEN {Mined(b, Tested(z, b.hash, d, TRUE))} ELSE {})
    \cup
    (IF CanFail(z, b.hash, d)
     THEN mine_block_StaleHash([b EXCEPT !.hash = calculate_hash(b),
                                         !.nonce = b.nonce + 1],
                               d, Tested(z, b.hash, d, FALSE))
     ELSE {})

\* a sealing that does not search for a nonce
mine_block_NoSearch(b, d, z) == {Mined(b, z)}

RECURSIVE mine_block_TestsRecomputed(_, _, _)
\* a mine_block that tests the digest it recomputes, not the stored one
mine_block_TestsRecomputed(b, d, z) ==
    (IF MayPass(z, calculate_hash(b), d)
     THEN {Mined([b EXCEPT !.hash = calculate_hash(b)],
                 Tested(z, calculate_hash(b), d, TRUE))}
     ELSE {})
    \cup
    (IF CanFail(z, calculate_hash(b), d)
     THEN mine_block_TestsRecomputed([b EXCEPT !.nonce = b.nonce + 1], d,
                                     Tested(z, calculate_hash(b), d, FALSE))
     ELSE {})

RECURSIVE mine_block(_, _, _)
\* Block.mine_block on a program whose tests so far are z: every way the
\* loop can run.  The test of a digest not tested before can come out
\* either way; a digest tested before answers as it did
mine_block(b, d, z) ==
    (IF MayPass(z, b.hash, d)
     THEN {Mined(b, Tested(z, b.hash, d, TRUE))} ELSE {})
    \cup
    (IF CanFail(z, b.hash, d)
     THEN mine_block(NextNonce(b), d, Tested(z, b.hash, d, FALSE))
     ELSE {})

\* Block.__init__
Block(index, timestamp, data, previous_hash) ==
    LET b == [index |-> index, timestamp |-> timestamp, data |-> data,
              previous_hash |-> previous_hash, nonce |-> 0, hash |-> <<>>]
    IN  [b EXCEPT !.hash = calculate_hash(b)]

\* DGLABlockchain.create_genesis_block, at clock value t
create_genesis_block(t, z) ==
    mine_block(Block(0, t,
                     [message |-> "DGLA Genesis Block",
                      source |-> "Rogers 5G Security System"],
                     <<StrCode("0")>>),
               difficulty, z)

(* ----------------------------- merkle root ----------------------------- *)

\* one pass of the pairing loop: combined = hashes[i] + hashes[i+1]
PairUp(hashes) ==
    [i \in 1..(Len(hashes) \div 2) |->
        sha256(hashes[2 * i - 1] \o hashes[2 * i])]

\* the pairing loop without its duplication step
PadLevel_NoDup(hashes) == hashes

\* the "duplicate the last one" step after a pairing pass
PadLevel(hashes) ==
    IF Len(hashes) % 2 = 1 /\ Len(hashes) > 1
    THEN Append(hashes, hashes[Len(hashes)])
    ELSE hashes

RECURSIVE MerkleLoop(_)
\* while len(hashes) > 1
MerkleLoop(hashes) ==
    IF Len(hashes) > 1 THEN MerkleLoop(PadLevel(PairUp(hashes)))
    ELSE hashes

\* DGLABlockchain._calculate_merkle_root; data_list is not empty
calculate_merkle_root(data_list) ==
    LET hashes == [i \in 1..Len(data_list) |-> sha256(DumpEntry(data_list[i]))]
        padded == IF Len(hashes) % 2 = 1
                  THEN Append(hashes, hashes[Len(hashes)])
                  ELSE hashes
    IN  MerkleLoop(padded)[1]

(* ------------------------- signed-envelope codec ----------------------- *)

\* DGLADataStore._sign_data, signing at clock value t
sign_data(data, keys, t) ==
    [k \in DOMAIN data \cup {"signature", "signed_at"} |->
        IF k = "signature"
        THEN sha256(DumpSlice(data) \o KeyString(keys.verification))
        ELSE IF k = "signed_at" THEN t
        ELSE data[k]]

\* an Optional value: None, or the value v
None == <<>>

Some(v) == <<v>>

\* _verify_signed_data without its comparison: every envelope is returned
verify_signed_data_NoCheck(signed, keys) == Some(signed)

\* DGLADataStore._verify_signed_data
verify_signed_data(signed, keys) ==
    LET data_to_verify ==
            [k \in DOMAIN signed \ {"signature", "signed_at"} |-> signed[k]]
        expected == sha256(DumpSlice(data_to_verify)
                           \o KeyString(keys.verification))
    IN  IF "signature" \notin DOMAIN signed THEN None
        ELSE IF signed.signature # expected THEN None
        ELSE Some(signed)

\* the dictionary store_network_slice hands to add_data
WrapSlice(signed) ==
    [type     |-> "network_slice",
     content  |-> signed,
     metadata |-> [source   |-> "Rogers 5G Security System",
                   category |-> "network_configuration",
                   version  |-> "1.0"]]

(* ------------------------------ shared keys ---------------------------- *)

\* f"NB_KEY_5G_{key_name.upper()}_", as segments before the last "_"
ExpectedPrefix(key_name) == <<"NB", "KEY", "5G", upper[key_name]>>

\* key_value.startswith(expected_value): the prefix ends with "_", so the
\* value has the prefix's segments and at least one more
StartsWith(key_value, prefix) ==
    /\ Len(key_value) > Len(prefix)
    /\ SubSeq(key_value, 1, Len(prefix)) = prefix

KeyOk(keys, key_name) == StartsWith(keys[key_name], ExpectedPrefix(key_name))

RECURSIVE FirstBadKey(_, _)
\* the loop over shared_keys.items(): the first key failing the check,
\* "" when every key passes
FirstBadKey(keys, j) ==
    IF j > Len(KeyNames) THEN ""
    ELSE IF ~KeyOk(keys, KeyNames[j]) THEN KeyNames[j]
    ELSE FirstBadKey(keys, j + 1)

\* key_issues of EnhancedSelfHealingBlockchain.repair_chain
key_issues(keys) == \E j \in 1..Len(KeyNames) : ~KeyOk(keys, KeyNames[j])

\* EnhancedSelfHealingBlockchain.reset_shared_keys
reset_shared_keys == DefaultKeys

(* ------------------------------ messages ------------------------------- *)

\* an f-string: its fixed text and the values it interpolates
Msg(text, index, key, blocks) ==
    [text |-> text, index |-> index, key |-> key, blocks |-> blocks,
     inner |-> ""]

\* an f-string that interpolates another message m after its own text
MsgAbout(text, m) ==
    [text |-> text, index |-> m.index, key |-> m.key, blocks |-> m.blocks,
     inner |-> m.text]

MsgOk == Msg("Ledger verification successful", -1, "", <<>>)

MsgKey(key_name) ==
    Msg("Shared key {key_name} has been tampered with", -1, key_name, <<>>)

(* ------------------------------ detection ------------------------------ *)

\* block i of a chain (Python index)
blk(c, i) == c[i + 1]

HashBad(c, i) == blk(c, i).hash # calculate_hash(blk(c, i))

LinkBad(c, i) == blk(c, i).previous_hash # blk(c, i - 1).hash

RECURSIVE DetectFrom_HashOnly(_, _)
\* the detection loop without its link check
DetectFrom_HashOnly(c, i) ==
    IF i >= Len(c) THEN <<>>
    ELSE IF HashBad(c, i) THEN <<i>> \o DetectFrom_HashOnly(c, i + 1)
    ELSE DetectFrom_HashOnly(c, i + 1)

RECURSIVE DetectFrom_NoContinue(_, _)
\* the detection loop without its continue: a block failing both checks
\* is appended by each
DetectFrom_NoContinue(c, i) ==
    IF i >= Len(c) THEN <<>>
    ELSE (IF HashBad(c, i) THEN <<i>> ELSE <<>>)
         \o (IF LinkBad(c, i) THEN <<i>> ELSE <<>>)
         \o DetectFrom_NoContinue(c, i + 1)

RECURSIVE DetectFrom(_, _)
\* the loop of detect_tampering / detect_tampered_blocks from index i
DetectFrom(c, i) ==
    IF i >= Len(c) THEN <<>>
    ELSE IF HashBad(c, i) THEN <<i>> \o DetectFrom(c, i + 1)
    ELSE IF LinkBad(c, i) THEN <<i>> \o DetectFrom(c, i + 1)
    ELSE DetectFrom(c, i + 1)

\* SelfHealingBlockchain.detect_tampering (chain_repair.py) and
\* EnhancedSelfHealingBlockchain.detect_tampering
detect_tampering(c) == DetectFrom(c, 1)

\* SelfHealingBlockchain.detect_tampered_blocks (block_repair.py)
detect_tampered_blocks(c) == DetectFrom(c, 1)

(* ----------------------------- verification ---------------------------- *)

RECURSIVE VerifyBlocksFrom(_, _)
\* the block loop of verify_chain_integrity from index i; MsgOk when no
\* block fails
VerifyBlocksFrom(c, i) ==
    IF i >= Len(c) THEN MsgOk
    ELSE IF HashBad(c, i) THEN Msg("Block {i} hash invalid", i, "", <<>>)
    ELSE IF LinkBad(c, i)
         THEN Msg("Block {i} not connected to previous block", i, "", <<>>)
    ELSE VerifyBlocksFrom(c, i + 1)

\* DGLABlockchain.verify_chain_integrity: blocks first, then keys
base_verify_chain_integrity(c, keys) ==
    LET m == VerifyBlocksFrom(c, 1)
        k == FirstBadKey(keys, 1)
    IN  IF m # MsgOk THEN [ok |-> FALSE, msg |-> m]
        ELSE IF k # "" THEN [ok |-> FALSE, msg |-> MsgKey(k)]
        ELSE [ok |-> TRUE, msg |-> MsgOk]

\* a verification that looks at the blocks only
chain_repair_verify_chain_integrity_NoKeys(c, keys) ==
    IF detect_tampering(c) # <<>>
    THEN [ok |-> FALSE,
          msg |-> Msg("Chain integrity compromised at blocks {tampered_blocks}",
                      -1, "", detect_tampering(c))]
    ELSE [ok |-> TRUE, msg |-> MsgOk]

\* SelfHealingBlockchain.verify_chain_integrity (chain_repair.py):
\* keys first, then the whole list of tampered blocks
chain_repair_verify_chain_integrity(c, keys) ==
    LET tampered_blocks == detect_tampering(c)
        k == FirstBadKey(keys, 1)
    IN  IF k # "" THEN [ok |-> FALSE, msg |-> MsgKey(k)]
        ELSE IF tampered_blocks # <<>>
             THEN [ok |-> FALSE,
                   msg |-> Msg("Chain integrity compromised at blocks {tampered_blocks}",
                               -1, "", tampered_blocks)]
        ELSE [ok |-> TRUE, msg |-> MsgOk]

\* EnhancedSelfHealingBlockchain.verify_chain_integrity: keys first, then
\* the block loop
enhanced_verify_chain_integrity(c, keys) ==
    LET k == FirstBadKey(keys, 1)
        m == VerifyBlocksFrom(c, 1)
    IN  IF k # "" THEN [ok |-> FALSE, msg |-> MsgKey(k)]
        ELSE IF m # MsgOk THEN [ok |-> FALSE, msg |-> m]
        ELSE [ok |-> TRUE, msg |-> MsgOk]

\* blockchain.verify_chain_integrity() as the store of kind st dispatches it
verify_chain_integrity(st, c, keys) ==
    CASE st = "chain_repair" -> chain_repair_verify_chain_integrity(c, keys)
      [] st = "enhanced" -> enhanced_verify_chain_integrity(c, keys)
      [] OTHER -> base_verify_chain_integrity(c, keys)

\* the detection method of the store of kind st
detect(st, c) ==
    IF st = "block_repair" THEN detect_tampered_blocks(c)
    ELSE detect_tampering(c)

(* -------------------------------- repair ------------------------------- *)

RECURSIVE Min(_)
\* min(tampered_blocks) of a non-empty list
Min(s) ==
    IF Len(s) = 1 THEN s[1]
    ELSE LET m == Min(Tail(s)) IN IF s[1] < m THEN s[1] ELSE m

\* the repair loop body without the relinking assignment
RepairBlock_NoRelink(c, i, z) ==
    LET b2 == [blk(c, i) EXCEPT !.hash = calculate_hash(blk(c, i))]
    IN  mine_block(b2, difficulty, z)

\* the repair loop body that also refreshes the block's timestamp
RepairBlock_Restamp(c, i, z) ==
    LET b1 == [blk(c, i) EXCEPT !.previous_hash = blk(c, i - 1).hash,
                                !.timestamp = @ + 1]
        b2 == [b1 EXCEPT !.hash = calculate_hash(b1)]
    IN  mine_block(b2, difficulty, z)

\* the body of the repair loop for block i: relink, rehash, re-mine
RepairBlock(c, i, z) ==
    LET b1 == [blk(c, i) EXCEPT !.previous_hash = blk(c, i - 1).hash]
        b2 == [b1 EXCEPT !.hash = calculate_hash(b1)]
    IN  mine_block(b2, difficulty, z)

\* what the repair loop leaves: the chain and the table of tested digests
Repaired(c, z) == [chain |-> c, zeros |-> z]

\* a repair that re-seals the first flagged block only
RepairFrom_NoCascade(c, i, z) ==
    IF i >= Len(c) \/ i = 0 THEN {Repaired(c, z)}
    ELSE {Repaired([c EXCEPT ![i + 1] = o.block], o.zeros) :
             o \in RepairBlock(c, i, z)}

RECURSIVE RepairFrom_StaleLinks(_, _, _)
\* a repair that links every block to the digest its predecessor had
\* before the repair: the later blocks are re-sealed first
RepairFrom_StaleLinks(c, i, z) ==
    IF i >= Len(c) THEN {Repaired(c, z)}
    ELSE IF i = 0 THEN RepairFrom_StaleLinks(c, i + 1, z)
    ELSE UNION {{Repaired([r.chain EXCEPT ![i + 1] = o.block], o.zeros) :
                    o \in RepairBlock(r.chain, i, r.zeros)} :
                r \in RepairFrom_StaleLinks(c, i + 1, z)}

RECURSIVE RepairFrom(_, _, _)
\* for i in range(start_index, len(self.chain)), genesis skipped
RepairFrom(c, i, z) ==
    IF i >= Len(c) THEN {Repaired(c, z)}
    ELSE IF i = 0 THEN RepairFrom(c, i + 1, z)
    ELSE UNION {RepairFrom([c EXCEPT ![i + 1] = o.block], i + 1, o.zeros) :
                o \in RepairBlock(c, i, z)}

\* a result list that holds the first flagged block only
RepairedFrom_FirstOnly(c, start) == <<start>>

\* the indices the repair loop appends to repaired_blocks
RepairedFrom(c, start) ==
    LET first == IF start = 0 THEN 1 ELSE start
    IN  [j \in 1..(Len(c) - first) |-> first + j - 1]

\* what repair_blockchain leaves and returns once its loop left r
BlockRepairResult(r, history, t, repaired) ==
    [chain |-> r.chain, zeros |-> r.zeros,
     history |-> Append(history,
                        [timestamp |-> t, blocks_repaired |-> repaired]),
     ok |-> TRUE,
     msg |-> Msg("Successfully repaired {len(repaired)} blocks",
                 Len(repaired), "", <<>>),
     blocks |-> repaired]

\* repair_blockchain without its early return: the loop and the history
\* record run on a clean chain too
repair_blockchain_NoEarlyReturn(c, history, t, z) ==
    LET tampered_blocks == detect_tampered_blocks(c)
        start_idx == IF tampered_blocks = <<>> THEN Len(c)
                     ELSE Min(tampered_blocks)
    IN  {BlockRepairResult(r, history, t, RepairedFrom(c, start_idx)) :
            r \in RepairFrom(c, start_idx, z)}

\* SelfHealingBlockchain.repair_blockchain (block_repair.py) after its
\* detection call returned tampered_blocks
repair_blockchain_of(c, history, t, tampered_blocks, z) ==
    IF tampered_blocks = <<>>
    THEN {[chain |-> c, zeros |-> z, history |-> history, ok |-> TRUE,
           msg |-> Msg("No repairs needed", -1, "", <<>>),
           blocks |-> <<>>]}
    ELSE {BlockRepairResult(r, history, t,
                            RepairedFrom(c, Min(tampered_blocks))) :
             r \in RepairFrom(c, Min(tampered_blocks), z)}

\* SelfHealingBlockchain.repair_blockchain (block_repair.py) at clock t:
\* the chain, the repair history and the returned triple of every way the
\* repair can run
repair_blockchain(c, history, t, z) ==
    repair_blockchain_of(c, history, t, detect_tampered_blocks(c), z)

\* what repair_chain (chain_repair.py) leaves and returns once its loop
\* left r
ChainRepairResult(r, history, t, tampered_blocks, repaired_blocks) ==
    [chain |-> r.chain, zeros |-> r.zeros,
     history |-> Append(history,
                        [timestamp |-> t,
                         reason |-> "auto-repair",
                         tampered_blocks |-> tampered_blocks]),
     ok |-> TRUE,
     msg |-> Msg("Chain repaired, {len(repaired_blocks)} blocks fixed",
                 Len(repaired_blocks), "", <<>>),
     blocks |-> repaired_blocks]

\* SelfHealingBlockchain.repair_chain (chain_repair.py) after its
\* detection call returned tampered_blocks
repair_chain_of(c, history, t, tampered_blocks, z) ==
    IF tampered_blocks = <<>>
    THEN {[chain |-> c, zeros |-> z, history |-> history, ok |-> TRUE,
           msg |-> Msg("Chain integrity intact, no repairs needed",
                       -1, "", <<>>),
           blocks |-> <<>>]}
    ELSE {ChainRepairResult(r, history, t, tampered_blocks,
                            RepairedFrom(c, Min(tampered_blocks))) :
             r \in RepairFrom(c, Min(tampered_blocks), z)}

\* SelfHealingBlockchain.repair_chain (chain_repair.py) at clock t
repair_chain(c, history, t, z) ==
    repair_chain_of(c, history, t, detect_tampering(c), z)

\* what the enhanced repair_chain leaves and returns once its key check
\* found issues, its detection returned tampered_blocks and its loop left r
EnhancedRepairResult(r, keys1, history, t, issues, tampered, repaired) ==
    [chain |-> r.chain, zeros |-> r.zeros,
     keys |-> keys1,
     history |-> Append(history,
                        [timestamp |-> t,
                         reason |-> "auto-repair",
                         tampered_blocks |-> tampered]),
     ok |-> TRUE,
     msg |-> Msg(IF ~issues
                 THEN "Fixed {n} blocks ({repaired_blocks})"
                 ELSE IF tampered = <<>>
                 THEN "Fixed shared key verification issue"
                 ELSE "Fixed shared key verification issue; Fixed {n} blocks ({repaired_blocks})",
                 Len(repaired), "", repaired),
     blocks |-> repaired]

\* EnhancedSelfHealingBlockchain.repair_chain after its key check found
\* issues and its detection call returned tampered_blocks
enhanced_repair_chain_of(c, keys, history, t, issues, tampered_blocks, z) ==
    IF tampered_blocks = <<>> /\ ~issues
    THEN {[chain |-> c, zeros |-> z, keys |-> keys, history |-> history,
           ok |-> TRUE,
           msg |-> Msg("Chain integrity intact, no repairs needed",
                       -1, "", <<>>),
           blocks |-> <<>>]}
    ELSE IF tampered_blocks = <<>>
    THEN {EnhancedRepairResult(Repaired(c, z), reset_shared_keys, history,
                               t, issues, tampered_blocks, <<>>)}
    ELSE {EnhancedRepairResult(r, IF issues THEN reset_shared_keys
                                  ELSE keys,
                               history, t, issues, tampered_blocks,
                               RepairedFrom(c, Min(tampered_blocks))) :
             r \in RepairFrom(c, Min(tampered_blocks), z)}

\* EnhancedSelfHealingBlockchain.repair_chain at clock t
enhanced_repair_chain(c, keys, history, t, z) ==
    enhanced_repair_chain_of(c, keys, history, t, key_issues(keys),
                             detect_tampering(c), z)

\* the store after a repair method returned r: block_repair.py appends to
\* repair_history (in_rep), the other two to fork_history; only the
\* enhanced repair hands back keys
RepairOutcome(r, keys, fork, rep, in_rep) ==
    [chain |-> r.chain, zeros |-> r.zeros,
     keys |-> IF "keys" \in DOMAIN r THEN r.keys ELSE keys,
     fork |-> IF in_rep THEN fork ELSE r.history,
     rep |-> IF in_rep THEN r.history ELSE rep,
     ok |-> r.ok, msg |-> r.msg, blocks |-> r.blocks]

\* repair() of the store of kind st at clock t on a program whose tests
\* so far are z: for every way the searches can run, the chain, the keys,
\* the history list the repair writes and the returned triple
repair(st, c, keys, fork, rep, t, z) ==
    CASE st = "block_repair" ->
            {RepairOutcome(r, keys, fork, rep, TRUE) :
                r \in repair_blockchain(c, rep, t, z)}
      [] st = "chain_repair" ->
            {RepairOutcome(r, keys, fork, rep, FALSE) :
                r \in repair_chain(c, fork, t, z)}
      [] st = "enhanced" ->
            {RepairOutcome(r, keys, fork, rep, FALSE) :
                r \in enhanced_repair_chain(c, keys, fork, t, z)}

(* ------------------------------- retrieval ----------------------------- *)

\* entry.get("type") == "network_slice"
IsSliceEntry(entry) == entry.type = "network_slice"

\* entry.get("content", {}) of each entry of a list
ContentsOf(entries) == [e \in 1..Len(entries) |-> entries[e].content]

\* the contents of the network_slice entries of a chain, in block order
\* and, inside a block, in entry order
SliceContents(c) ==
    Flatten([j \in 1..Len(c) |->
                IF "entries" \in DOMAIN c[j].data
                THEN ContentsOf(SelectSeq(c[j].data.entries, IsSliceEntry))
                ELSE <<>>])

RECURSIVE FirstWithId(_, _)
\* the first content whose slice_id is the one looked for
FirstWithId(contents, slice_id) ==
    IF contents = <<>> THEN None
    ELSE IF Head(contents).slice_id = slice_id THEN Some(Head(contents))
    ELSE FirstWithId(Tail(contents), slice_id)

RECURSIVE FirstVerified(_, _, _)
\* the first content with the slice_id looked for whose signature verifies
FirstVerified(contents, keys, slice_id) ==
    IF contents = <<>> THEN None
    ELSE IF /\ Head(contents).slice_id = slice_id
            /\ verify_signed_data(Head(contents), keys) # None
         THEN Some(Head(contents))
         ELSE FirstVerified(Tail(contents), keys, slice_id)

\* a retrieve_network_slice that goes on to later entries when the
\* signature of a matching one does not verify
retrieve_network_slice_NextOnFailure(c, keys, slice_id) ==
    FirstVerified(SliceContents(c), keys, slice_id)

\* DGLADataStore.retrieve_network_slice(slice_id)
retrieve_network_slice(c, keys, slice_id) ==
    IF FirstWithId(SliceContents(c), slice_id) = None THEN None
    ELSE verify_signed_data(FirstWithId(SliceContents(c), slice_id)[1],
                            keys)

\* the entries of every block that has an "entries" key, in chain order
ChainEntries(c) ==
    Flatten([j \in 1..Len(c) |->
                IF "entries" \in DOMAIN c[j].data THEN c[j].data.entries
                ELSE <<>>])

RECURSIVE FirstEntryWithId(_, _)
\* the first entry whose data_id is the one looked for
FirstEntryWithId(entries, data_id) ==
    IF entries = <<>> THEN None
    ELSE IF Head(entries).data_id = data_id THEN Some(Head(entries))
    ELSE FirstEntryWithId(Tail(entries), data_id)

\* DGLABlockchain.get_data_by_id(data_id)
get_data_by_id(c, data_id) == FirstEntryWithId(ChainEntries(c), data_id)

(* ------------------------------- the state ----------------------------- *)

\* the shared keys a freshly constructed store of kind st holds:
\* FixedKeyStore.__init__ replaces the keys, EnhancedSelfHealingBlockchain
\* resets them to the values DGLABlockchain.__init__ already set
InitialKeys(st) ==
    CASE st = "block_repair" -> FixedKeys
      [] st = "enhanced" -> reset_shared_keys
      [] OTHER -> DefaultKeys

\* the stores whose blockchain has a repair method
Repairing == {"block_repair", "chain_repair", "enhanced"}

\* the stores with auto_repair_if_needed
AutoRepairing == {"chain_repair", "enhanced"}

\* what a call returned: nothing yet, or the value v
NoReturn == [called |-> FALSE, value |-> None]

Returned(v) == [called |-> TRUE, value |-> v]

\* no verification or detection call has returned; the flag is as the
\* store's constructor leaves it
GuardIdle ==
    /\ verification_state = IF store = "enhanced" THEN Some(TRUE) ELSE None
    /\ vi_out = NoReturn
    /\ vi_calls = 0
    /\ dt_out = NoReturn

\* no sealing and no enqueueing is under way
RaceIdle ==
    /\ rc_pc = "idle"
    /\ rc_new = None
    /\ ad_pc = "idle"
    /\ ad_new = None
    /\ atomic = TRUE

\* mine_block is not run on its own
MineIdle ==
    /\ mb_block = None
    /\ mb_difficulty = 0
    /\ mb_out = NoReturn
    /\ mb_calls = 0

\* the codec variables while the codec is not run on its own
CodecIdle ==
    /\ sg_payload = None
    /\ sg_signed = None
    /\ sg_fresh = None
    /\ sg_key = <<>>
    /\ sg_out = NoReturn

\* DGLABlockchain.__init__: the chain holds the genesis block, sealed by
\* a search that tested its digests first of all
Constructed ==
    \E g \in create_genesis_block(0, NoDigests) :
       /\ chain = <<g.block>>
       /\ leading_zeros = g.zeros
       /\ genesis_calls = 0

\* DGLADataStore.__init__ and its subclasses: the genesis block is sealed
\* in the constructor
Init ==
    /\ store \in Stores
    /\ Constructed
    /\ pending_data = <<>>
    /\ shared_keys = InitialKeys(store)
    /\ fork_history = <<>>
    /\ repair_history = <<>>
    /\ clock = 1
    /\ next_id = 1
    /\ sealed = chain
    /\ oob_count = 0
    /\ key_writes = 0
    /\ seal_ret = NoReturn
    /\ add_ret = NoReturn
    /\ GuardIdle
    /\ RaceIdle
    /\ MineIdle
    /\ mk_list = <<>>
    /\ mk_root = <<>>
    /\ CodecIdle

\* data["data_id"] = data_id; data["timestamp"] = now: the dictionary
\* handed to add_data after the two assignments
NewEntry(data, id, t) ==
    [k \in DOMAIN data \cup {"data_id", "timestamp"} |->
        IF k = "data_id" THEN id
        ELSE IF k = "timestamp" THEN t
        ELSE data[k]]

\* the entry e is the dictionary object data.  The ledger holds references
\* to the dictionaries handed to add_data, not copies; every call of
\* add_data writes an identifier no other dictionary has into the one it
\* is handed, so two entries with one data_id are one object
IsObject(e, data) ==
    /\ "data_id" \in DOMAIN data
    /\ e.data_id = data.data_id

\* a list of entries after the object data was written to and became new
Rewritten(entries, data, new) ==
    [i \in 1..Len(entries) |->
        IF IsObject(entries[i], data) THEN new ELSE entries[i]]

\* the chain after the object data was written to and became new: every
\* block that holds the object shows the write
RewrittenChain(c, data, new) ==
    [j \in 1..Len(c) |->
        IF "entries" \in DOMAIN c[j].data
        THEN [c[j] EXCEPT !.data.entries = Rewritten(@, data, new)]
        ELSE c[j]]

\* the dictionaries a caller builds for add_data as store_network_slice
\* does: a slice, signed now and wrapped
FreshPayloads ==
    {WrapSlice(sign_data(d, shared_keys, clock)) : d \in Slices}

\* the dictionaries of the ledger a caller holds a reference to: those it
\* handed to add_data before, which get_data_by_id also returns
HeldEntries ==
    {pending_data[i] : i \in 1..Len(pending_data)}
    \cup {ChainEntries(chain)[i] : i \in 1..Len(ChainEntries(chain))}

\* a new block linked to the genesis block instead of the latest block
NewBlock_LinksGenesis(c, pending, t, z) ==
    LET combined_data == [entries |-> pending,
                          merkle_root |-> calculate_merkle_root(pending)]
        latest_block == c[1]
    IN  mine_block(Block(latest_block.index + 1, t, combined_data,
                         latest_block.hash),
                   difficulty, z)

\* DGLABlockchain.mine_pending_data on a non-empty pending list at clock t
NewBlock(c, pending, t, z) ==
    LET combined_data == [entries |-> pending,
                          merkle_root |-> calculate_merkle_root(pending)]
        latest_block == c[Len(c)]
    IN  mine_block(Block(latest_block.index + 1, t, combined_data,
                         latest_block.hash),
                   difficulty, z)

\* DGLABlockchain.add_data(data): the identifier (next_id) and the
\* timestamp are written into the dictionary handed over, wherever the
\* ledger already refers to it, and the dictionary is appended to
\* pending_data; it returns the identifier
add_data(data) ==
    /\ Len(pending_data) < MaxPending
    /\ Len(chain) < MaxChain
    /\ next_id <= MaxEntries
    /\ pending_data' =
          Append(Rewritten(pending_data, data,
                           NewEntry(data, next_id, clock + 1)),
                 NewEntry(data, next_id, clock + 1))
    /\ chain' = RewrittenChain(chain, data,
                               NewEntry(data, next_id, clock + 1))
    /\ next_id' = next_id + 1
    /\ clock' = clock + 2
    /\ seal_ret' = NoReturn
    /\ add_ret' = Returned(next_id)
    /\ UNCHANGED <<genesis_calls, leading_zeros,
                   store, shared_keys, fork_history, repair_history,
                   sealed, oob_count, key_writes, merkle_vars, codec_vars,
                   guard_vars, race_vars, mine_vars>>

\* a sealing that overwrites the last block instead of appending
seals_Overwrites(new_block) ==
    /\ chain' = [chain EXCEPT ![Len(chain)] = new_block]
    /\ sealed' = [sealed EXCEPT ![Len(sealed)] = new_block]
    /\ seal_ret' = Returned(Some(new_block))

\* self.chain.append(new_block); return new_block
seals(new_block) ==
    /\ chain' = Append(chain, new_block)
    /\ sealed' = Append(sealed, new_block)
    /\ seal_ret' = Returned(Some(new_block))

\* mine_pending_data without its early return: an empty pending list is
\* sealed into a block of no entries
mine_pending_data_SealsEmpty ==
    /\ Len(chain) < MaxChain
    /\ \E o \in mine_block(Block(chain[Len(chain)].index + 1, clock,
                                  [entries |-> pending_data,
                                   merkle_root |-> sha256(<<>>)],
                                  chain[Len(chain)].hash),
                            difficulty, leading_zeros) :
          /\ seals(o.block)
          /\ leading_zeros' = o.zeros
    /\ pending_data' = <<>>
    /\ add_ret' = NoReturn
    /\ clock' = clock + 1
    /\ UNCHANGED <<genesis_calls, store, shared_keys, fork_history, repair_history,
                   next_id, oob_count, key_writes, merkle_vars,
                   codec_vars, guard_vars, race_vars, mine_vars>>

\* mine_pending_data(): None and no change when nothing is pending
mine_pending_data ==
    IF pending_data = <<>>
    THEN /\ seal_ret' = Returned(None)
         /\ add_ret' = NoReturn
         /\ UNCHANGED <<genesis_calls, leading_zeros,
                        store, chain, pending_data, shared_keys,
                        fork_history, repair_history, clock, next_id,
                        sealed, oob_count, key_writes, merkle_vars,
                        codec_vars, guard_vars, race_vars, mine_vars>>
    ELSE /\ Len(chain) < MaxChain
         /\ \E o \in NewBlock(chain, pending_data, clock, leading_zeros) :
               /\ seals(o.block)
               /\ leading_zeros' = o.zeros
         /\ pending_data' = <<>>
         /\ add_ret' = NoReturn
         /\ clock' = clock + 1
         /\ UNCHANGED <<genesis_calls, store, shared_keys, fork_history, repair_history,
                        next_id, oob_count, key_writes, merkle_vars,
                        codec_vars, guard_vars, race_vars, mine_vars>>

\* a store_network_slice that seals what is pending before it enqueues
\* the new entry
store_network_slice_SealsFirst(slice_data) ==
    /\ Len(pending_data) < MaxPending
    /\ Len(chain) < MaxChain
    /\ next_id <= MaxEntries
    /\ IF pending_data = <<>>
       THEN /\ seal_ret' = Returned(None)
            /\ UNCHANGED <<genesis_calls, leading_zeros, chain, sealed>>
       ELSE \E o \in NewBlock(chain, pending_data, clock + 2,
                              leading_zeros) :
               /\ seals(o.block)
               /\ leading_zeros' = o.zeros
    /\ pending_data' =
          <<NewEntry(WrapSlice(sign_data(slice_data, shared_keys, clock)),
                     next_id, clock + 1)>>
    /\ add_ret' = Returned(next_id)
    /\ next_id' = next_id + 1
    /\ clock' = clock + 3
    /\ UNCHANGED <<genesis_calls, store, shared_keys, fork_history, repair_history,
                   oob_count, key_writes, merkle_vars, codec_vars,
                   guard_vars, race_vars, mine_vars>>

\* DGLADataStore.store_network_slice(slice_data); it returns next_id
store_network_slice(slice_data) ==
    /\ Len(pending_data) < MaxPending
    /\ Len(chain) < MaxChain
    /\ next_id <= MaxEntries
    /\ LET signed_data == sign_data(slice_data, shared_keys, clock)
           entry == NewEntry(WrapSlice(signed_data), next_id, clock + 1)
       IN  \E o \in NewBlock(chain, Append(pending_data, entry), clock + 2,
                             leading_zeros) :
              /\ seals(o.block)
              /\ leading_zeros' = o.zeros
    /\ pending_data' = <<>>
    /\ add_ret' = Returned(next_id)
    /\ next_id' = next_id + 1
    /\ clock' = clock + 3
    /\ UNCHANGED <<genesis_calls, store, shared_keys, fork_history, repair_history,
                   oob_count, key_writes, merkle_vars, codec_vars,
                   guard_vars, race_vars, mine_vars>>

\* the snapshot of every block as it was last sealed, after a repair that
\* re-sealed the listed blocks of c1
Resealed(snap, c1, blocks) ==
    [j \in 1..Len(c1) |->
        IF \E n \in 1..Len(blocks) : blocks[n] = j - 1
        THEN c1[j] ELSE snap[j]]

\* what repair() of the current store does in the current state
RepairNow ==
    repair(store, chain, shared_keys, fork_history, repair_history, clock,
           leading_zeros)

\* the assignments a repair method makes, r being what repair() computes
repair_writes(r) ==
    /\ Len(r.fork) <= MaxHistory
    /\ Len(r.rep) <= MaxHistory
    /\ chain' = r.chain
    /\ leading_zeros' = r.zeros
    /\ shared_keys' = r.keys
    /\ fork_history' = r.fork
    /\ repair_history' = r.rep
    /\ sealed' = Resealed(sealed, r.chain, r.blocks)
    /\ clock' = IF Len(r.fork) # Len(fork_history)
                   \/ Len(r.rep) # Len(repair_history)
                THEN clock + 1 ELSE clock

\* repair_chain() / repair_blockchain()
repair_step ==
    /\ store \in Repairing
    /\ \E r \in RepairNow : repair_writes(r)
    /\ seal_ret' = NoReturn
    /\ add_ret' = NoReturn
    /\ UNCHANGED <<genesis_calls, store, pending_data, next_id, oob_count, key_writes,
                   merkle_vars, codec_vars, guard_vars, race_vars, mine_vars>>

\* the triple auto_repair_if_needed returns when its first verification
\* returned v and repair() computes r
auto_repair_returns(v, r) ==
    LET after == verify_chain_integrity(store, r.chain, r.keys)
    IN  IF v.ok
        THEN [ok |-> TRUE, msg |-> Msg("No repairs needed", -1, "", <<>>),
              blocks |-> <<>>]
        ELSE IF store = "chain_repair"
        THEN [ok |-> r.ok, msg |-> r.msg, blocks |-> r.blocks]
        ELSE IF after.ok
        THEN [ok |-> TRUE,
              msg |-> MsgAbout("Chain repaired successfully: {result[1]}",
                               r.msg),
              blocks |-> r.blocks]
        ELSE [ok |-> FALSE,
              msg |-> MsgAbout("Repair attempted but issues remain: {message_after}",
                               after.msg),
              blocks |-> r.blocks]

\* the triple auto_repair_if_needed returns in the current state when
\* repair() computes r (SelfHealingDataStore and EnhancedDataStore)
auto_repair_result(r) ==
    auto_repair_returns(verify_chain_integrity(store, chain, shared_keys), r)

\* the assignments of auto_repair_if_needed when its verification returned
\* v and repair() computes r
auto_repair_writes(v, r) ==
    LET t == IF Len(r.fork) # Len(fork_history) THEN clock + 1 ELSE clock
    IN  IF v.ok
        THEN UNCHANGED <<genesis_calls, leading_zeros, chain, shared_keys, fork_history,
                         repair_history, sealed, clock>>
        ELSE /\ Len(r.fork) <= MaxHistory
             /\ Len(repair_history) < MaxHistory
             /\ chain' = r.chain
             /\ leading_zeros' = r.zeros
             /\ shared_keys' = r.keys
             /\ fork_history' = r.fork
             /\ repair_history' =
                    Append(repair_history,
                           [timestamp |-> t, result |-> r.ok,
                            message |-> r.msg,
                            repaired_blocks |-> r.blocks])
             /\ sealed' = Resealed(sealed, r.chain, r.blocks)
             /\ clock' = t + 1

\* SelfHealingDataStore.auto_repair_if_needed and
\* EnhancedDataStore.auto_repair_if_needed
auto_repair_if_needed ==
    /\ store \in AutoRepairing
    /\ \E r \in RepairNow :
          auto_repair_writes(verify_chain_integrity(store, chain,
                                                    shared_keys), r)
    /\ seal_ret' = NoReturn
    /\ add_ret' = NoReturn
    /\ UNCHANGED <<genesis_calls, store, pending_data, next_id, oob_count, key_writes,
                   merkle_vars, codec_vars, guard_vars, race_vars, mine_vars>>

(* ----------------------- out-of-band mutations ------------------------- *)

\* a digest no block of the ledger has
ForgedHash == sha256(<<StrCode("forged")>>)

\* the dictionaries handed to tamper_with_block: the one of the module's
\* example, one that overwrites a key of the genesis payload and one that
\* overwrites a key of an entry
TamperData ==
    {[priority |-> 50], [message |-> "changed"], [type |-> "changed"]}

\* dict.update(new_data)
Update(d, new_data) ==
    [k \in DOMAIN d \cup DOMAIN new_data |->
        IF k \in DOMAIN new_data THEN new_data[k] ELSE d[k]]

\* what DGLABlockchain.tamper_with_block(index, new_data) returns
tamper_with_block_returns(c, index) == ~(index < 0 \/ index >= Len(c))

\* the chain after DGLABlockchain.tamper_with_block(index, new_data): the
\* first entry of a batch, or the payload of a block without entries, is
\* updated; the stored digest is left as it is
TamperedChain(c, index, new_data) ==
    IF ~tamper_with_block_returns(c, index) THEN c
    ELSE IF "entries" \in DOMAIN blk(c, index).data
    THEN IF blk(c, index).data.entries # <<>>
         THEN RewrittenChain(c, blk(c, index).data.entries[1],
                             Update(blk(c, index).data.entries[1],
                                    new_data))
         ELSE c
    ELSE [c EXCEPT ![index + 1].data = Update(@, new_data)]

\* pending_data after DGLABlockchain.tamper_with_block(index, new_data):
\* the updated entry may be waiting again
TamperedPending(pending, c, index, new_data) ==
    IF /\ tamper_with_block_returns(c, index)
       /\ "entries" \in DOMAIN blk(c, index).data
       /\ blk(c, index).data.entries # <<>>
    THEN Rewritten(pending, blk(c, index).data.entries[1],
                   Update(blk(c, index).data.entries[1], new_data))
    ELSE pending

\* DGLABlockchain.tamper_with_block(index, new_data) with an index inside
\* the chain (outside it the call returns False and changes nothing)
tamper_with_block(index, new_data) ==
    /\ oob_count < MaxOob
    /\ tamper_with_block_returns(chain, index)
    /\ chain' = TamperedChain(chain, index, new_data)
    /\ pending_data' = TamperedPending(pending_data, chain, index, new_data)
    /\ oob_count' = oob_count + 1
    /\ seal_ret' = NoReturn
    /\ add_ret' = NoReturn
    /\ UNCHANGED <<genesis_calls, leading_zeros,
                   store, shared_keys, fork_history,
                   repair_history, clock, next_id, sealed, key_writes,
                   merkle_vars, codec_vars, guard_vars, race_vars, mine_vars>>

\* the entry after entry["content"]["priority"] = v
WithPriority(entry, v) == [entry EXCEPT !.content.priority = v]

\* chain[i].data["entries"][e]["content"]["priority"] = v, without
\* re-sealing (the tampering step of the repair tests)
tamper_priority(i, e, v) ==
    /\ oob_count < MaxOob
    /\ i \in 0..(Len(chain) - 1)
    /\ "entries" \in DOMAIN blk(chain, i).data
    /\ e \in 1..Len(blk(chain, i).data.entries)
    /\ blk(chain, i).data.entries[e].content.priority # v
    /\ chain' = RewrittenChain(chain, blk(chain, i).data.entries[e],
                               WithPriority(blk(chain, i).data.entries[e],
                                            v))
    /\ pending_data' = Rewritten(pending_data, blk(chain, i).data.entries[e],
                                 WithPriority(blk(chain, i).data.entries[e],
                                              v))
    /\ oob_count' = oob_count + 1
    /\ seal_ret' = NoReturn
    /\ add_ret' = NoReturn
    /\ UNCHANGED <<genesis_calls, leading_zeros,
                   store, shared_keys, fork_history,
                   repair_history, clock, next_id, sealed, key_writes,
                   merkle_vars, codec_vars, guard_vars, race_vars, mine_vars>>

\* chain[i].hash = ForgedHash
tamper_hash(i) ==
    /\ oob_count < MaxOob
    /\ i \in 0..(Len(chain) - 1)
    /\ blk(chain, i).hash # ForgedHash
    /\ chain' = [chain EXCEPT ![i + 1].hash = ForgedHash]
    /\ oob_count' = oob_count + 1
    /\ seal_ret' = NoReturn
    /\ add_ret' = NoReturn
    /\ UNCHANGED <<genesis_calls, leading_zeros,
                   store, pending_data, shared_keys, fork_history,
                   repair_history, clock, next_id, sealed, key_writes,
                   merkle_vars, codec_vars, guard_vars, race_vars, mine_vars>>

\* chain[i].previous_hash = ForgedHash
tamper_previous_hash(i) ==
    /\ oob_count < MaxOob
    /\ i \in 0..(Len(chain) - 1)
    /\ blk(chain, i).previous_hash # ForgedHash
    /\ chain' = [chain EXCEPT ![i + 1].previous_hash = ForgedHash]
    /\ oob_count' = oob_count + 1
    /\ seal_ret' = NoReturn
    /\ add_ret' = NoReturn
    /\ UNCHANGED <<genesis_calls, leading_zeros,
                   store, pending_data, shared_keys, fork_history,
                   repair_history, clock, next_id, sealed, key_writes,
                   merkle_vars, codec_vars, guard_vars, race_vars, mine_vars>>

\* chain[i].nonce += 1
tamper_nonce(i) ==
    /\ oob_count < MaxOob
    /\ i \in 0..(Len(chain) - 1)
    /\ chain' = [chain EXCEPT ![i + 1].nonce = @ + 1]
    /\ oob_count' = oob_count + 1
    /\ seal_ret' = NoReturn
    /\ add_ret' = NoReturn
    /\ UNCHANGED <<genesis_calls, leading_zeros,
                   store, pending_data, shared_keys, fork_history,
                   repair_history, clock, next_id, sealed, key_writes,
                   merkle_vars, codec_vars, guard_vars, race_vars, mine_vars>>

\* the values written into shared_keys[key_name] from outside the ledger:
\* "TAMPERED_KEY" (the key tampering of the repair test) and the value
\* key_fix.py assigns
KeyWrites(key_name) == {TamperedKey, FixedKeys[key_name]}

\* store.blockchain.shared_keys[key_name] = value
set_shared_key(key_name, value) ==
    /\ key_writes < MaxKeyWrites
    /\ shared_keys[key_name] # value
    /\ shared_keys' = [shared_keys EXCEPT ![key_name] = value]
    /\ key_writes' = key_writes + 1
    /\ seal_ret' = NoReturn
    /\ add_ret' = NoReturn
    /\ UNCHANGED <<genesis_calls, leading_zeros,
                   store, chain, pending_data, fork_history, repair_history,
                   clock, next_id, sealed, oob_count, merkle_vars,
                   codec_vars, guard_vars, race_vars, mine_vars>>

\* store.blockchain.create_genesis_block() on a constructed ledger: the
\* method seals a block of index 0 and previous_hash "0" and appends it
\* to the chain whatever the chain holds; it returns nothing
create_genesis_block_call ==
    /\ genesis_calls < MaxGenesis
    /\ Len(chain) < MaxChain
    /\ \E g \in create_genesis_block(clock, leading_zeros) :
          /\ chain' = Append(chain, g.block)
          /\ sealed' = Append(sealed, g.block)
          /\ leading_zeros' = g.zeros
    /\ genesis_calls' = genesis_calls + 1
    /\ clock' = clock + 1
    /\ seal_ret' = NoReturn
    /\ add_ret' = NoReturn
    /\ UNCHANGED <<store, pending_data, shared_keys, fork_history,
                   repair_history, next_id, oob_count, key_writes,
                   merkle_vars, codec_vars, guard_vars, race_vars, mine_vars>>

\* store.blockchain.reset_shared_keys() on its own, on a ledger of the
\* enhanced engine: the keys are rebound to the defaults and nothing is
\* recorded
reset_shared_keys_call ==
    /\ store = "enhanced"
    /\ shared_keys' = reset_shared_keys
    /\ seal_ret' = NoReturn
    /\ add_ret' = NoReturn
    /\ UNCHANGED <<genesis_calls, leading_zeros, store, chain, pending_data,
                   fork_history, repair_history, clock, next_id, sealed,
                   oob_count, key_writes, merkle_vars, codec_vars,
                   guard_vars, race_vars, mine_vars>>

(* ---------------------------- specification ---------------------------- *)

\* another write from outside the ledger's operations, or another call of
\* create_genesis_block on the constructed ledger, fits the bound
WritesLeft == oob_count + key_writes + genesis_calls < MaxWrites

Next ==
    \/ \E data \in FreshPayloads \cup HeldEntries : add_data(data)
    \/ mine_pending_data
    \/ \E d \in Slices : store_network_slice(d)
    \/ repair_step
    \/ auto_repair_if_needed
    \/ WritesLeft /\ create_genesis_block_call
    \/ reset_shared_keys_call
    \/ \E i \in 0..(MaxChain - 1), e \in 1..MaxPending,
          v \in TamperPriorities : WritesLeft /\ tamper_priority(i, e, v)
    \/ \E i \in 0..(MaxChain - 1), new_data \in TamperData :
          WritesLeft /\ tamper_with_block(i, new_data)
    \/ \E i \in 0..(MaxChain - 1) : WritesLeft /\ tamper_hash(i)
    \/ \E i \in 0..(MaxChain - 1) : WritesLeft /\ tamper_previous_hash(i)
    \/ \E i \in 0..(MaxChain - 1) : WritesLeft /\ tamper_nonce(i)
    \/ \E j \in 1..Len(KeyNames) :
          \E v \in KeyWrites(KeyNames[j]) :
              WritesLeft /\ set_shared_key(KeyNames[j], v)

Spec == Init /\ [][Next]_vars

(* ------------------- the merkle aggregator on its own ------------------ *)

\* entries as add_data leaves them in pending_data, one per slice
LeafEntries ==
    {NewEntry(WrapSlice(sign_data(d, DefaultKeys, 1)), 1, 2) : d \in Slices}

\* the non-empty lists of at most n entries
RECURSIVE EntryLists(_)
EntryLists(n) ==
    IF n = 0 THEN {<<>>}
    ELSE LET shorter == EntryLists(n - 1)
         IN  shorter \cup {Append(l, e) : l \in shorter, e \in LeafEntries}

MerkleInit ==
    /\ store = "base"
    /\ Constructed
    /\ pending_data = <<>>
    /\ shared_keys = InitialKeys(store)
    /\ fork_history = <<>>
    /\ repair_history = <<>>
    /\ clock = 1
    /\ next_id = 1
    /\ sealed = chain
    /\ oob_count = 0
    /\ key_writes = 0
    /\ seal_ret = NoReturn
    /\ add_ret = NoReturn
    /\ GuardIdle
    /\ RaceIdle
    /\ MineIdle
    /\ mk_list \in EntryLists(MaxLeaves) \ {<<>>}
    /\ mk_root = <<>>
    /\ CodecIdle

\* self._calculate_merkle_root(mk_list)
merkle_step ==
    /\ mk_root = <<>>
    /\ mk_root' = calculate_merkle_root(mk_list)
    /\ UNCHANGED <<genesis_calls, leading_zeros,
                   store, chain, pending_data, shared_keys, fork_history,
                   repair_history, clock, next_id, sealed, oob_count,
                   key_writes, seal_ret, add_ret, mk_list, codec_vars,
                   guard_vars, race_vars, mine_vars>>

MerkleNext == merkle_step

MerkleSpec == MerkleInit /\ [][MerkleNext]_vars

(* ------------------- the signed-envelope codec on its own -------------- *)

\* the dictionary d with d[k] = v
With(d, k, v) == [x \in DOMAIN d \cup {k} |-> IF x = k THEN v ELSE d[x]]

\* payloads handed to _sign_data: the slices, and the slices that already
\* carry a "signature" or a "signed_at" entry of their own
Payloads ==
    Slices
    \cup {With(d, "signature", ForgedHash) : d \in Slices}
    \cup {With(d, "signed_at", 0) : d \in Slices}
    \cup {With(With(d, "signature", ForgedHash), "signed_at", 0) :
            d \in Slices}

\* the signature _verify_signed_data expects of an envelope under keys
ExpectedSignature(signed, keys) ==
    sha256(DumpSlice([k \in DOMAIN signed \ {"signature", "signed_at"} |->
                         signed[k]])
           \o KeyString(keys.verification))

\* the values an out-of-band write puts into a field of an envelope
FieldWrites(signed, keys, field) ==
    CASE field = "priority" -> {100, 50} \cup TamperPriorities
      [] field = "slice_id" -> {d.slice_id : d \in Slices}
      [] field = "signed_at" -> {0, signed.signed_at + 1}
      [] field = "signature" ->
            {ForgedHash, ExpectedSignature(signed, keys)}

\* a store right after construction, and a payload about to be signed
CodecInit ==
    /\ store \in Stores
    /\ Constructed
    /\ pending_data = <<>>
    /\ shared_keys = InitialKeys(store)
    /\ fork_history = <<>>
    /\ repair_history = <<>>
    /\ clock = 1
    /\ next_id = 1
    /\ sealed = chain
    /\ oob_count = 0
    /\ key_writes = 0
    /\ seal_ret = NoReturn
    /\ add_ret = NoReturn
    /\ GuardIdle
    /\ RaceIdle
    /\ MineIdle
    /\ mk_list = <<>>
    /\ mk_root = <<>>
    /\ sg_payload \in {Some(p) : p \in Payloads}
    /\ sg_signed = None
    /\ sg_fresh = None
    /\ sg_key = <<>>
    /\ sg_out = NoReturn

\* signed_data = self._sign_data(data): the caller's dictionary is copied,
\* the copy is written and returned
codec_sign ==
    /\ sg_signed = None
    /\ sg_signed' = Some(sign_data(sg_payload[1], shared_keys, clock))
    /\ sg_fresh' = sg_signed'
    /\ sg_key' = shared_keys.verification
    /\ sg_payload' = sg_payload
    /\ clock' = clock + 1
    /\ UNCHANGED <<genesis_calls, leading_zeros,
                   store, chain, pending_data, shared_keys, fork_history,
                   repair_history, next_id, sealed, oob_count, key_writes,
                   seal_ret, add_ret, merkle_vars, guard_vars, race_vars,
                   sg_out, mine_vars>>

\* signed_data[field] = value, once, before the envelope is verified
codec_write(field, value) ==
    /\ sg_signed # None
    /\ sg_signed = sg_fresh
    /\ ~sg_out.called
    /\ sg_signed[1][field] # value
    /\ sg_signed' = Some([sg_signed[1] EXCEPT ![field] = value])
    /\ UNCHANGED <<genesis_calls, leading_zeros,
                   store, chain, pending_data, shared_keys, fork_history,
                   repair_history, clock, next_id, sealed, oob_count,
                   key_writes, seal_ret, add_ret, merkle_vars, guard_vars,
                   race_vars, sg_payload, sg_fresh,
                   sg_key, sg_out, mine_vars>>

\* self._verify_signed_data(signed_data)
codec_verify ==
    /\ sg_signed # None
    /\ ~sg_out.called
    /\ sg_out' = Returned(verify_signed_data(sg_signed[1], shared_keys))
    /\ UNCHANGED <<genesis_calls, leading_zeros,
                   store, chain, pending_data, shared_keys, fork_history,
                   repair_history, clock, next_id, sealed, oob_count,
                   key_writes, seal_ret, add_ret, merkle_vars, guard_vars,
                   race_vars, sg_payload, sg_signed,
                   sg_fresh, sg_key, mine_vars>>

\* a key written between signing and verifying
codec_set_key(key_name, value) ==
    /\ ~sg_out.called
    /\ set_shared_key(key_name, value)

CodecNext ==
    \/ codec_sign
    \/ /\ sg_signed # None
       /\ \E field \in DOMAIN sg_signed[1] :
             \E value \in FieldWrites(sg_signed[1], shared_keys, field) :
                 codec_write(field, value)
    \/ codec_verify
    \/ \E j \in 1..Len(KeyNames) :
          \E v \in KeyWrites(KeyNames[j]) : codec_set_key(KeyNames[j], v)

CodecSpec == CodecInit /\ [][CodecNext]_vars

(* ------------------- verification that can be interrupted -------------- *)

\* a priority json.dumps rejects with TypeError (a set, an object)
NotSerializable == 0 - 1

\* json.dumps of the block's contents succeeds
Serializable(b) ==
    "entries" \in DOMAIN b.data
    => \A e \in 1..Len(b.data.entries) :
          b.data.entries[e].content.priority # NotSerializable

RECURSIVE FirstUnserializable(_, _)
\* the first index from i on whose calculate_hash() raises, Len(c) if none
FirstUnserializable(c, i) ==
    IF i >= Len(c) THEN Len(c)
    ELSE IF ~Serializable(blk(c, i)) THEN i
    ELSE FirstUnserializable(c, i + 1)

\* the outcome of a call: a returned value or a raised exception
Return(v) == [raised |-> FALSE, result |-> v]

Raise(e) == [raised |-> TRUE, result |-> e]

\* the block loop of verify_chain_integrity when block u is the first whose
\* calculate_hash() raises: an earlier failing block returns before it
TryVerifyBlocks(c, u) ==
    IF VerifyBlocksFrom(SubSeq(c, 1, u), 1) # MsgOk \/ u = Len(c)
    THEN Return(VerifyBlocksFrom(SubSeq(c, 1, u), 1))
    ELSE Raise("TypeError")

\* detect_tampering() / detect_tampered_blocks(): every block from 1 on is
\* rehashed, so an unserializable one raises
try_detect(c) ==
    IF FirstUnserializable(c, 1) < Len(c) THEN Raise("TypeError")
    ELSE Return(DetectFrom(c, 1))

\* blockchain.verify_chain_integrity() of the store of kind st, with the
\* exception json.dumps raises inside calculate_hash()
try_verify_chain_integrity(st, c, keys) ==
    CASE st = "chain_repair" ->
            IF try_detect(c).raised THEN Raise("TypeError")
            ELSE Return(chain_repair_verify_chain_integrity(c, keys))
      [] st = "enhanced" ->
            IF FirstBadKey(keys, 1) # ""
            THEN Return(enhanced_verify_chain_integrity(c, keys))
            ELSE IF TryVerifyBlocks(c, FirstUnserializable(c, 1)).raised
            THEN Raise("TypeError")
            ELSE Return(enhanced_verify_chain_integrity(
                            SubSeq(c, 1, FirstUnserializable(c, 1)), keys))
      [] OTHER ->
            IF TryVerifyBlocks(c, FirstUnserializable(c, 1)).raised
            THEN Raise("TypeError")
            ELSE Return(base_verify_chain_integrity(
                            SubSeq(c, 1, FirstUnserializable(c, 1)), keys))

\* the text of the message the except clause builds
ErrorText(st) ==
    IF st = "block_repair" THEN "Error verifying: {str(e)}"
    ELSE "Error verifying ledger: {str(e)}"

\* a verify_integrity that lets the exception through
verify_integrity_of_Reraise(st, o) == o

\* DGLADataStore.verify_integrity, FixedKeyStore.verify_integrity and
\* EnhancedDataStore.verify_integrity once the call inside try: ended
\* with outcome o
verify_integrity_of(st, o) ==
    IF o.raised
    THEN Return([ok |-> FALSE,
                 msg |-> [text |-> ErrorText(st), index |-> -1, key |-> "",
                          blocks |-> <<>>, inner |-> o.result]])
    ELSE o

\* the flag verify_integrity leaves in self.verification_state
verification_state_of(o) ==
    IF o.raised THEN Some(FALSE) ELSE Some(o.result.ok)

\* store.verify_integrity()
verify_integrity ==
    /\ vi_calls < MaxCalls
    /\ vi_out' = Returned(verify_integrity_of(
                     store,
                     try_verify_chain_integrity(store, chain, shared_keys)))
    /\ verification_state' =
          verification_state_of(
              try_verify_chain_integrity(store, chain, shared_keys))
    /\ vi_calls' = vi_calls + 1
    /\ UNCHANGED <<genesis_calls, leading_zeros,
                   store, chain, pending_data, shared_keys, fork_history,
                   repair_history, clock, next_id, sealed, oob_count,
                   key_writes, seal_ret, add_ret, merkle_vars, codec_vars,
                   dt_out, race_vars, mine_vars>>

\* blockchain.detect_tampering() / store.detect_tampered_blocks()
detect_call ==
    /\ store \in Repairing
    /\ ~dt_out.called
    /\ dt_out' = Returned(try_detect(chain))
    /\ UNCHANGED <<genesis_calls, leading_zeros,
                   store, chain, pending_data, shared_keys, fork_history,
                   repair_history, clock, next_id, sealed, oob_count,
                   key_writes, seal_ret, add_ret, merkle_vars, codec_vars,
                   verification_state, vi_out, vi_calls, race_vars,
                   mine_vars>>

\* no verification or detection call has been made yet
Unprobed == ~vi_out.called /\ ~dt_out.called

GuardInit == Init

\* a ledger is built and mutated, then verified and scanned
GuardNext ==
    \/ \E d \in Slices : Unprobed /\ store_network_slice(d)
    \/ \E i \in 1..(MaxChain - 1), e \in 1..MaxPending,
          v \in TamperPriorities \cup {NotSerializable} :
          Unprobed /\ tamper_priority(i, e, v)
    \/ \E i \in 0..(MaxChain - 1), new_data \in TamperData :
          Unprobed /\ tamper_with_block(i, new_data)
    \/ \E i \in 1..(MaxChain - 1) : Unprobed /\ tamper_hash(i)
    \/ \E j \in 1..Len(KeyNames) :
          \E v \in KeyWrites(KeyNames[j]) :
              Unprobed /\ set_shared_key(KeyNames[j], v)
    \/ verify_integrity
    \/ detect_call

GuardSpec == GuardInit /\ [][GuardNext]_vars

(* ------------------- sealing interleaved with enqueueing --------------- *)

\* the block under construction as it is now: its entries are the very
\* list pending_data refers to
RaceBlock == [rc_new[1] EXCEPT !.data.entries = pending_data]

\* operations exclude each other, or they do not
RaceInit ==
    /\ store \in Stores
    /\ Constructed
    /\ pending_data = <<>>
    /\ shared_keys = InitialKeys(store)
    /\ fork_history = <<>>
    /\ repair_history = <<>>
    /\ clock = 1
    /\ next_id = 1
    /\ sealed = chain
    /\ oob_count = 0
    /\ key_writes = 0
    /\ seal_ret = NoReturn
    /\ add_ret = NoReturn
    /\ GuardIdle
    /\ rc_pc = "idle"
    /\ rc_new = None
    /\ ad_pc = "idle"
    /\ ad_new = None
    /\ atomic \in BOOLEAN
    /\ MineIdle
    /\ mk_list = <<>>
    /\ mk_root = <<>>
    /\ CodecIdle

\* if not self.pending_data: return None
race_check ==
    /\ rc_pc = "idle"
    /\ atomic => ad_pc # "stamped"
    /\ Len(chain) < MaxChain
    /\ IF pending_data = <<>>
       THEN /\ seal_ret' = Returned(None)
            /\ UNCHANGED rc_pc
       ELSE /\ rc_pc' = "checked"
            /\ seal_ret' = NoReturn
    /\ add_ret' = NoReturn
    /\ UNCHANGED <<genesis_calls, leading_zeros, store, chain, pending_data, shared_keys,
                   fork_history, repair_history, clock, next_id, sealed,
                   oob_count, key_writes, merkle_vars, codec_vars,
                   guard_vars, rc_new, ad_pc, ad_new, atomic, mine_vars>>

\* combined_data = {"entries": self.pending_data, "merkle_root": ...}: the
\* merkle root of what is pending now
race_root ==
    /\ rc_pc = "checked"
    /\ rc_pc' = "rooted"
    /\ rc_new' = Some([data |->
                          [entries |-> pending_data,
                           merkle_root |->
                               calculate_merkle_root(pending_data)]])
    /\ UNCHANGED <<genesis_calls, leading_zeros, store, chain, pending_data, shared_keys,
                   fork_history, repair_history, clock, next_id, sealed,
                   oob_count, key_writes, seal_ret, add_ret, merkle_vars,
                   codec_vars, guard_vars, ad_pc, ad_new, atomic, mine_vars>>

\* the arguments of Block(...): the clock is read for the timestamp
race_stamp ==
    /\ rc_pc = "rooted"
    /\ rc_pc' = "stamped"
    /\ rc_new' = Some([data |-> rc_new[1].data, timestamp |-> clock])
    /\ clock' = clock + 1
    /\ UNCHANGED <<genesis_calls, leading_zeros, store, chain, pending_data, shared_keys,
                   fork_history, repair_history, next_id, sealed,
                   oob_count, key_writes, seal_ret, add_ret, merkle_vars,
                   codec_vars, guard_vars, ad_pc, ad_new, atomic, mine_vars>>

\* Block.__init__: the first digest, over the entries the list holds now
race_init ==
    /\ rc_pc = "stamped"
    /\ rc_pc' = "mining"
    /\ rc_new' = Some(Block(chain[Len(chain)].index + 1,
                            rc_new[1].timestamp,
                            [entries |-> pending_data,
                             merkle_root |-> rc_new[1].data.merkle_root],
                            chain[Len(chain)].hash))
    /\ UNCHANGED <<genesis_calls, leading_zeros, store, chain, pending_data, shared_keys,
                   fork_history, repair_history, clock, next_id, sealed,
                   oob_count, key_writes, seal_ret, add_ret, merkle_vars,
                   codec_vars, guard_vars, ad_pc, ad_new, atomic, mine_vars>>

\* one evaluation of the loop condition of mine_block on the stored
\* digest, and the loop body when it fails: the new digest is taken over
\* the entries the list holds now
race_mine ==
    /\ rc_pc = "mining"
    /\ \E pass \in BOOLEAN :
          /\ IF pass
             THEN /\ MayPass(leading_zeros, rc_new[1].hash, difficulty)
                  /\ rc_pc' = "mined"
                  /\ UNCHANGED rc_new
             ELSE /\ CanFail(leading_zeros, rc_new[1].hash, difficulty)
                  /\ UNCHANGED rc_pc
                  /\ rc_new' = Some(NextNonce(RaceBlock))
          /\ leading_zeros' = Tested(leading_zeros, rc_new[1].hash,
                                     difficulty, pass)
    /\ UNCHANGED <<genesis_calls, store, chain, pending_data, shared_keys, fork_history,
                   repair_history, clock, next_id, sealed, oob_count,
                   key_writes, seal_ret, add_ret, merkle_vars, codec_vars,
                   guard_vars, ad_pc, ad_new, atomic, mine_vars>>

\* self.chain.append(new_block)
race_append ==
    /\ rc_pc = "mined"
    /\ rc_pc' = "appended"
    /\ chain' = Append(chain, RaceBlock)
    /\ sealed' = Append(sealed, rc_new[1])
    /\ UNCHANGED <<genesis_calls, leading_zeros, store, pending_data, shared_keys,
                   fork_history, repair_history, clock, next_id, oob_count,
                   key_writes, seal_ret, add_ret, merkle_vars, codec_vars,
                   guard_vars, rc_new, ad_pc, ad_new, atomic, mine_vars>>

\* a sealing that empties the list in place: self.pending_data.clear()
race_clear_InPlace ==
    /\ rc_pc = "appended"
    /\ rc_pc' = "idle"
    /\ rc_new' = None
    /\ pending_data' = <<>>
    /\ chain' = [chain EXCEPT ![Len(chain)].data.entries = <<>>]
    /\ seal_ret' = Returned(Some(chain'[Len(chain')]))
    /\ add_ret' = NoReturn
    /\ UNCHANGED <<genesis_calls, leading_zeros, store, shared_keys, fork_history,
                   repair_history, clock, next_id, sealed, oob_count,
                   key_writes, merkle_vars, codec_vars, guard_vars,
                   ad_pc, ad_new, atomic, mine_vars>>

\* self.pending_data = []; return new_block
race_clear ==
    /\ rc_pc = "appended"
    /\ rc_pc' = "idle"
    /\ rc_new' = None
    /\ pending_data' = <<>>
    /\ seal_ret' = Returned(Some(chain[Len(chain)]))
    /\ add_ret' = NoReturn
    /\ UNCHANGED <<genesis_calls, leading_zeros, store, chain, shared_keys, fork_history,
                   repair_history, clock, next_id, sealed, oob_count,
                   key_writes, merkle_vars, codec_vars, guard_vars,
                   ad_pc, ad_new, atomic, mine_vars>>

\* signed_data = self._sign_data(slice_data) and the dictionary literal
\* handed to add_data: the clock is read for signed_at
race_sign(data) ==
    /\ ad_pc = "idle"
    /\ next_id <= MaxEntries
    /\ ad_pc' = "signed"
    /\ ad_new' = Some(WrapSlice(sign_data(data, shared_keys, clock)))
    /\ clock' = clock + 1
    /\ UNCHANGED <<genesis_calls, leading_zeros, store, chain, pending_data, shared_keys,
                   fork_history, repair_history, next_id, sealed,
                   oob_count, key_writes, seal_ret, add_ret, merkle_vars,
                   codec_vars, guard_vars, rc_pc, rc_new, atomic, mine_vars>>

\* add_data up to its append: the id and the timestamp are written into
\* the dictionary
race_stamp_entry ==
    /\ ad_pc = "signed"
    /\ atomic => rc_pc = "idle"
    /\ ad_pc' = "stamped"
    /\ ad_new' = Some(NewEntry(ad_new[1], next_id, clock))
    /\ next_id' = next_id + 1
    /\ clock' = clock + 1
    /\ UNCHANGED <<genesis_calls, leading_zeros, store, chain, pending_data, shared_keys,
                   fork_history, repair_history, sealed, oob_count,
                   key_writes, seal_ret, add_ret, merkle_vars, codec_vars,
                   guard_vars, rc_pc, rc_new, atomic, mine_vars>>

\* self.pending_data.append(data); return data_id.  The list appended to
\* is also the entries of a block the sealing has appended and not yet
\* let go of
race_add ==
    /\ ad_pc = "stamped"
    /\ Len(pending_data) < MaxPending
    /\ ad_pc' = "idle"
    /\ ad_new' = None
    /\ pending_data' = Append(pending_data, ad_new[1])
    /\ chain' = IF rc_pc = "appended"
                THEN [chain EXCEPT ![Len(chain)].data.entries =
                                        pending_data']
                ELSE chain
    /\ seal_ret' = NoReturn
    /\ add_ret' = Returned(ad_new[1].data_id)
    /\ UNCHANGED <<genesis_calls, leading_zeros, store, shared_keys, fork_history,
                   repair_history, clock, next_id, sealed, oob_count,
                   key_writes, merkle_vars, codec_vars, guard_vars,
                   rc_pc, rc_new, atomic, mine_vars>>

RaceNext ==
    \/ race_check
    \/ race_root
    \/ race_stamp
    \/ race_init
    \/ race_mine
    \/ race_append
    \/ race_clear
    \/ \E d \in Slices : race_sign(d)
    \/ race_stamp_entry
    \/ race_add

RaceSpec == RaceInit /\ [][RaceNext]_vars

(* --------------------------- sealing on its own ------------------------ *)

\* stored digests that are not the digest of any block
StaleHashes == {ForgedHash, sha256(<<>>)}

\* the two payloads a block carries: the genesis message or a batch
MineData ==
    {[message |-> "DGLA Genesis Block",
      source |-> "Rogers 5G Security System"],
     [entries |-> <<>>, merkle_root |-> sha256(<<>>)]}

\* a block as Block.__init__ leaves it, then with nonce n written
FreshBlock(data, previous_hash, n) ==
    LET b == [Block(1, 1, data, previous_hash) EXCEPT !.nonce = n]
    IN  [b EXCEPT !.hash = calculate_hash(b)]

\* the blocks handed to mine_block: with the digest of their fields, or
\* with a stale stored digest
MineBlocks ==
    LET fresh == {FreshBlock(data, previous_hash, n) :
                     data \in MineData,
                     previous_hash \in {<<StrCode("0")>>, ForgedHash},
                     n \in 0..MaxNonce}
    IN  fresh \cup {[b EXCEPT !.hash = h] : b \in fresh, h \in StaleHashes}

MineInit ==
    /\ store = "base"
    /\ Constructed
    /\ pending_data = <<>>
    /\ shared_keys = InitialKeys(store)
    /\ fork_history = <<>>
    /\ repair_history = <<>>
    /\ clock = 1
    /\ next_id = 1
    /\ sealed = chain
    /\ oob_count = 0
    /\ key_writes = 0
    /\ seal_ret = NoReturn
    /\ add_ret = NoReturn
    /\ GuardIdle
    /\ RaceIdle
    /\ mk_list = <<>>
    /\ mk_root = <<>>
    /\ CodecIdle
    /\ MineIdle

\* block.mine_block(d) on a block b: the block after the call is the
\* result, and the digests the call tested stay tested
mine_block_call(b, d) ==
    /\ mb_calls < MaxMines
    /\ mb_block' = Some(b)
    /\ mb_difficulty' = d
    /\ mb_calls' = mb_calls + 1
    /\ \E o \in mine_block(b, d, leading_zeros) :
          /\ mb_out' = Returned(o.block)
          /\ leading_zeros' = o.zeros
    /\ UNCHANGED <<genesis_calls, store, chain, pending_data, shared_keys, fork_history,
                   repair_history, clock, next_id, sealed, oob_count,
                   key_writes, seal_ret, add_ret, merkle_vars, codec_vars,
                   guard_vars, race_vars>>

MineNext ==
    \E b \in MineBlocks, d \in 0..MaxDifficulty : mine_block_call(b, d)

MineSpec == MineInit /\ [][MineNext]_vars

(* ------------------------------ properties ----------------------------- *)
\* the entries a block holds: a block made by create_genesis_block holds
\* none
EntriesOf(b) == IF "entries" \in DOMAIN b.data THEN b.data.entries ELSE <<>>


\* verify() and detect() of the current store in the current state
VerifyNow == verify_chain_integrity(store, chain, shared_keys)

DetectNow == detect(store, chain)

\* every shared key passes its prefix check
KeysValid(keys) == \A j \in 1..Len(KeyNames) : KeyOk(keys, KeyNames[j])

\* block k is exactly as it was last sealed
Untouched(k) == blk(chain, k) = blk(sealed, k)

\* only the payload of block k differs from what was last sealed
PayloadOnlyTampered(k) ==
    /\ k \in 1..(Len(chain) - 1)
    /\ blk(chain, k).data # blk(sealed, k).data
    /\ [blk(chain, k) EXCEPT !.data = blk(sealed, k).data] = blk(sealed, k)

\* block k is the one block changed since sealing, and only in its payload
OnePayloadTampered(k) ==
    /\ PayloadOnlyTampered(k)
    /\ \A i \in 0..(Len(chain) - 1) : i # k => Untouched(i)

\* the message names block index k
NamesIndex(msg, k) ==
    \/ msg.index = k
    \/ \E n \in 1..Len(msg.blocks) : msg.blocks[n] = k

\* some stored entry carries a priority written out-of-band
SomeTamperedPayload(c) ==
    \E i \in 1..(Len(c) - 1) : \E e \in 1..Len(EntriesOf(blk(c, i))) :
        EntriesOf(blk(c, i))[e].content.priority \in TamperPriorities

\* C1: a ledger built only by construction, enqueue and seal_pending, with
\* no out-of-band mutation and no further call of create_genesis_block,
\* verifies: verify() returns (true, "Ledger verification successful").
C1_FreshLedgerVerifies ==
    (oob_count = 0 /\ key_writes = 0 /\ genesis_calls = 0)
    => VerifyNow = [ok |-> TRUE, msg |-> MsgOk]

\* C2: when detect() is non-empty and the shared keys are valid, one
\* repair() returns success and leaves detect() empty and verify() true.
C2_RepairHeals ==
    [][(repair_step /\ DetectNow # <<>> /\ KeysValid(shared_keys))
       => /\ \A r \in RepairNow : r.ok
          /\ detect(store, chain') = <<>>
          /\ verify_chain_integrity(store, chain', shared_keys').ok]_vars

\* a repaired ledger of the key-fixed store: a block holds a tampered
\* payload, a repair is on record, and the ledger is consistent again
C2_Witness ==
    /\ store = "block_repair"
    /\ Len(repair_history) = 1
    /\ repair_history[1].blocks_repaired # <<>>
    /\ KeysValid(shared_keys)
    /\ DetectNow = <<>>
    /\ VerifyNow.ok

\* C3: after repair() on a ledger with a corrupted shared key, every
\* shared key passes its prefix check.
C3_RepairFixesKeys ==
    [][(repair_step /\ store = "enhanced" /\ ~KeysValid(shared_keys))
       => KeysValid(shared_keys')]_vars

\* C4: when the payload of exactly one non-genesis block k was changed
\* without re-sealing, detect() returns [k] and verify() returns false with
\* a message that names index k.
C4_SinglePayloadTamper ==
    \A k \in 1..(Len(chain) - 1) :
        OnePayloadTampered(k)
        => /\ DetectNow = <<k>>
           /\ ~VerifyNow.ok
           /\ NamesIndex(VerifyNow.msg, k)

\* the scenario of the repair tests: genesis and two sealed single-entry
\* blocks, the entry of block 1 changed in place
TwoBlockScenario ==
    /\ Len(chain) = 3
    /\ shared_keys = InitialKeys(store)
    /\ Len(EntriesOf(blk(chain, 1))) = 1
    /\ Len(EntriesOf(blk(chain, 2))) = 1
    /\ OnePayloadTampered(1)

\* C5 as stated: in the two-block scenario detect() returns [1], repair()
\* returns repaired_indices [1], and the following verify() returns
\* (true, "Ledger verification successful").
C5_ScenarioAsStated ==
    [][(repair_step /\ TwoBlockScenario)
       => /\ DetectNow = <<1>>
          /\ \A r \in RepairNow : r.blocks = <<1>>
          /\ verify_chain_integrity(store, chain', shared_keys')
                 = [ok |-> TRUE, msg |-> MsgOk]]_vars

\* C5 amended: in the two-block scenario detect() returns [1] and repair()
\* returns repaired_indices [1, 2]; the following verify() returns
\* (true, "Ledger verification successful") on the key-fixed store of
\* block_repair.py.
C5_ScenarioAmended ==
    [][(repair_step /\ TwoBlockScenario)
       => /\ DetectNow = <<1>>
          /\ \A r \in RepairNow : r.blocks = <<1, 2>>
          /\ store = "block_repair"
                => verify_chain_integrity(store, chain', shared_keys')
                       = [ok |-> TRUE, msg |-> MsgOk]]_vars

\* the two-block scenario after its repair on the key-fixed store
C5_Witness ==
    /\ store = "block_repair"
    /\ Len(chain) = 3
    /\ Len(EntriesOf(blk(chain, 1))) = 1
    /\ Len(EntriesOf(blk(chain, 2))) = 1
    /\ EntriesOf(blk(chain, 1))[1].content.priority \in TamperPriorities
    /\ Len(repair_history) = 1
    /\ repair_history[1].blocks_repaired = <<1, 2>>
    /\ VerifyNow = [ok |-> TRUE, msg |-> MsgOk]

\* C6: repair() of a ledger whose one tampered block is payload-tampered
\* block k, k before the last block, gives every block from k on a stored
\* digest different from the one it had before the repair.
C6_RepairCascades ==
    [][\A k \in 1..(Len(chain) - 2) :
          (repair_step /\ OnePayloadTampered(k))
          => \A i \in k..(Len(chain) - 1) :
                blk(chain', i).hash # blk(chain, i).hash]_vars

\* a repair of block 1 that reached the last block of a three-block chain
C6_Witness ==
    /\ store \in Repairing
    /\ Len(chain) = 3
    /\ Len(EntriesOf(blk(chain, 1))) >= 1
    /\ EntriesOf(blk(chain, 1))[1].content.priority \in TamperPriorities
    /\ \A i \in 0..2 : Untouched(i)
    /\ DetectNow = <<>>
    /\ \/ Len(fork_history) = 1 /\ fork_history[1].tampered_blocks = <<1>>
       \/ Len(repair_history) = 1 /\ store = "block_repair"
          /\ repair_history[1].blocks_repaired = <<1, 2>>

\* the fields of a block that repair() may not change
FrameOf(b) == <<b.index, b.timestamp, b.data>>

\* C7: repair() leaves every block before min(detect()) unchanged, changes
\* only previous_hash, nonce and hash of the blocks from there on, and
\* leaves pending_data unchanged.
C7_RepairFrame ==
    [][(repair_step /\ DetectNow # <<>>)
       => /\ Len(chain') = Len(chain)
          /\ \A i \in 0..(Len(chain) - 1) :
                IF i < Min(DetectNow)
                THEN blk(chain', i) = blk(chain, i)
                ELSE FrameOf(blk(chain', i)) = FrameOf(blk(chain, i))
          /\ pending_data' = pending_data]_vars

\* a repair from block 2 of a three-block chain with an entry pending:
\* blocks 0 and 1 are before the first flagged index
C7_Witness ==
    /\ store \in Repairing
    /\ Len(chain) = 3
    /\ SomeTamperedPayload(chain)
    /\ DetectNow = <<>>
    /\ \/ Len(fork_history) = 1 /\ fork_history[1].tampered_blocks = <<2>>
       \/ Len(repair_history) = 1 /\ store = "block_repair"
          /\ repair_history[1].blocks_repaired = <<2>>

\* detect() is empty and every shared key is valid
Clean == DetectNow = <<>> /\ KeysValid(shared_keys)

NoRepairTexts ==
    {"No repairs needed", "Chain integrity intact, no repairs needed"}

\* C8: repair() on a Clean ledger returns (true, "no repairs needed", [])
\* and changes no block, no shared key and no history list, so a second
\* repair() finds the same state again.
C8_CleanRepairNoop ==
    (store \in Repairing /\ Clean)
    => \A r \in RepairNow :
          /\ r.ok
          /\ r.msg.text \in NoRepairTexts
          /\ r.blocks = <<>>
          /\ r.chain = chain
          /\ r.keys = shared_keys
          /\ r.fork = fork_history
          /\ r.rep = repair_history

\* a Clean ledger with two sealed blocks on a store that can repair
C8_Witness ==
    /\ store \in Repairing
    /\ Clean
    /\ Len(chain) = 3
    /\ \E r \in RepairNow : r.blocks = <<>>

\* C9: right after every sealing (genesis creation, seal_pending, each
\* re-seal of a repair) the sealed block's stored digest equals the digest
\* recomputed from its fields.
C9_SealedDigestMatches ==
    \A j \in 1..Len(sealed) : sealed[j].hash = calculate_hash(sealed[j])

\* blocks sealed in all three ways: genesis, a mined block, and a block
\* re-sealed by a repair with its tampered payload
C9_Witness ==
    /\ Len(chain) = 3
    /\ SomeTamperedPayload(sealed)
    /\ \E j \in 1..Len(sealed) : sealed[j].nonce > 0

\* one level of the reference reduction: pad an odd level with its last
\* digest, then digest the pairs
RefLevel(hs) ==
    LET p == IF Len(hs) % 2 = 1 THEN Append(hs, hs[Len(hs)]) ELSE hs
    IN  [i \in 1..(Len(p) \div 2) |-> sha256(p[2 * i - 1] \o p[2 * i])]

RECURSIVE RefReduce(_)
RefReduce(hs) ==
    LET next == RefLevel(hs)
    IN  IF Len(next) = 1 THEN next[1] ELSE RefReduce(next)

\* the reference merkle root of a non-empty list of entries
MerkleReference(entries) ==
    RefReduce([i \in 1..Len(entries) |-> sha256(DumpEntry(entries[i]))])

\* digest(digest(digest(a)+digest(b)) + digest(digest(c)+digest(c)))
MerkleOfThree(a, b, c) ==
    LET da == sha256(DumpEntry(a))
        db == sha256(DumpEntry(b))
        dc == sha256(DumpEntry(c))
    IN  sha256(sha256(da \o db) \o sha256(dc \o dc))

\* C10: for every non-empty list of entries the merkle aggregator returns
\* the reference reduction (digest each entry, duplicate the last digest of
\* every odd level, pair and digest until one digest remains); for
\* [a, b, c] that is digest(digest(digest(a)+digest(b)) +
\* digest(digest(c)+digest(c))).
C10_MerkleMatchesReference ==
    mk_root # <<>>
    => /\ mk_root = MerkleReference(mk_list)
       /\ Len(mk_list) = 3
          => mk_root = MerkleOfThree(mk_list[1], mk_list[2], mk_list[3])

\* a computed root of five entries, whose second level has an odd count
C10_Witness ==
    /\ mk_root # <<>>
    /\ Len(mk_list) = 5
    /\ mk_list[4] # mk_list[5]

(* --------------------------- the codec's claims ------------------------ *)

\* the envelope is as sign returned it and the verification key is the
\* one it was signed with
Unmodified ==
    /\ sg_signed = sg_fresh
    /\ shared_keys.verification = sg_key

\* the entries of an envelope other than signature and signed_at equal
\* those of the payload p
CarriesPayload(signed, p) ==
    \A k \in DOMAIN p \ {"signature", "signed_at"} :
        k \in DOMAIN signed /\ signed[k] = p[k]

\* C11: for any payload p and an unchanged verification key,
\* verify_and_unwrap(sign(p)) returns the signed payload (never none), its
\* fields other than signature and signed_at equal p, and sign leaves p
\* unmodified.
C11_SignThenVerify ==
    (sg_out.called /\ Unmodified)
    => /\ sg_out.value = sg_fresh
       /\ CarriesPayload(sg_fresh[1], sg_payload[1])
       /\ sg_payload[1] \in Payloads

\* the envelopes that differ from what sign returned in the one entry k
ChangedOnlyIn(k) ==
    /\ sg_signed[1][k] # sg_fresh[1][k]
    /\ \A x \in DOMAIN sg_fresh[1] \ {k} : sg_signed[1][x] = sg_fresh[1][x]

\* C12 as stated: if any field of a signed payload (a payload field,
\* signature or signed_at) is changed to a different value after sign,
\* verify_and_unwrap on the changed payload returns none.
C12_AnyChangeRejected ==
    (sg_out.called /\ sg_signed # sg_fresh) => sg_out.value = None

\* C12 amended: if a payload field or the signature of a signed payload
\* that verify_and_unwrap accepts is changed to a different value,
\* verify_and_unwrap on the changed payload returns none; a change of
\* signed_at alone is not detected and the changed payload is returned.
C12_ChangeRejectedButSignedAt ==
    (/\ sg_out.called
     /\ sg_signed # sg_fresh
     /\ verify_signed_data(sg_fresh[1], shared_keys) # None)
    => IF ChangedOnlyIn("signed_at")
       THEN sg_out.value = sg_signed
       ELSE sg_out.value = None

\* both cases were verified: an accepted envelope whose priority was
\* changed
C12_Witness ==
    /\ sg_out.called
    /\ sg_signed # None
    /\ verify_signed_data(sg_fresh[1], shared_keys) # None
    /\ ChangedOnlyIn("priority")
    /\ sg_out.value = None

(* ------------------------- sealing pending entries --------------------- *)

\* the last block of a chain
Last(c) == c[Len(c)]

\* C13: seal_pending() with non-empty pending appends exactly one block
\* whose index is the previous last index + 1, whose previous_digest is the
\* stored digest of the previous last block, and whose payload entries are
\* the pending entries in enqueue order with merkle_root the Merkle root of
\* those entries; it leaves pending empty and returns that block.
C13_SealAppendsOneBlock ==
    [][(mine_pending_data /\ pending_data # <<>>)
       => /\ Len(chain') = Len(chain) + 1
          /\ SubSeq(chain', 1, Len(chain)) = chain
          /\ Last(chain').index = Last(chain).index + 1
          /\ Last(chain').previous_hash = Last(chain).hash
          /\ Last(chain').data.entries = pending_data
          /\ Last(chain').data.merkle_root = MerkleReference(pending_data)
          /\ pending_data' = <<>>
          /\ seal_ret' = Returned(Some(Last(chain')))]_vars

\* a block of two entries returned by the call that sealed it, its
\* predecessor being a sealed block
C13_Witness ==
    /\ seal_ret.called
    /\ seal_ret.value = Some(Last(chain))
    /\ Len(chain) = 3
    /\ pending_data = <<>>
    /\ Last(chain).previous_hash = blk(chain, 1).hash

\* C14: seal_pending() with empty pending returns none and leaves chain,
\* pending, shared keys and the audit trail unchanged; no block that
\* seal_pending returns was aggregated from an empty list.
C14_SealNothingPending ==
    [][/\ (mine_pending_data /\ pending_data = <<>>)
          => /\ seal_ret' = Returned(None)
             /\ UNCHANGED <<chain, pending_data, shared_keys, fork_history,
                            repair_history>>
       /\ (seal_ret'.called /\ seal_ret'.value # None)
          => seal_ret'.value[1].data.entries # <<>>]_vars

\* seal_pending() has just returned none on a ledger of two blocks
C14_Witness ==
    /\ seal_ret = Returned(None)
    /\ pending_data = <<>>
    /\ Len(chain) = 2

(* ------------------------------- detection ----------------------------- *)

\* the indices whose stored digest or whose link to the predecessor's
\* stored digest is wrong
BadIndices ==
    {i \in 1..(Len(chain) - 1) :
        \/ blk(chain, i).hash # calculate_hash(blk(chain, i))
        \/ blk(chain, i).previous_hash # blk(chain, i - 1).hash}

\* C15: in every state detect() returns a strictly increasing list of
\* exactly the indices i in 1..N-1 whose stored digest differs from the
\* recomputed one or whose previous_digest differs from the stored digest
\* of block i-1; index 0 is never in it.
C15_DetectExact ==
    store \in Repairing
    => /\ {DetectNow[j] : j \in 1..Len(DetectNow)} = BadIndices
       /\ \A j \in 1..(Len(DetectNow) - 1) : DetectNow[j] < DetectNow[j + 1]
       /\ \A j \in 1..Len(DetectNow) : DetectNow[j] # 0

\* block 1 of a three-block chain carries a forged previous_digest, so it
\* fails both checks, and it is listed once
C15_Witness ==
    /\ store \in Repairing
    /\ Len(chain) = 3
    /\ blk(chain, 1).previous_hash = ForgedHash
    /\ blk(chain, 2).previous_hash = blk(chain, 1).hash
    /\ DetectNow = <<1>>

(* ------------------------------ audit trail ---------------------------- *)

\* the list a repair method appends its record to
AuditTrail(st, fork, rep) == IF st = "block_repair" THEN rep ELSE fork

\* the reason a repair record carries, "" when it carries none
ReasonOf(rec) == IF "reason" \in DOMAIN rec THEN rec.reason ELSE ""

\* the index list a repair record carries
AffectedOf(rec) ==
    IF "tampered_blocks" \in DOMAIN rec THEN rec.tampered_blocks
    ELSE rec.blocks_repaired

\* C16: every repair() that finds inconsistent blocks appends exactly one
\* record to the audit trail; its reason is "auto-repair" and its index
\* list is the list detect() returned before any block was mutated, not
\* the list of blocks that were re-sealed.
C16_RepairRecord ==
    [][(repair_step /\ DetectNow # <<>>)
       => LET before == AuditTrail(store, fork_history, repair_history)
              after == AuditTrail(store, fork_history', repair_history')
          IN  /\ Len(after) = Len(before) + 1
              /\ SubSeq(after, 1, Len(before)) = before
              /\ ReasonOf(Last(after)) = "auto-repair"
              /\ AffectedOf(Last(after)) = DetectNow]_vars

(* ----------------------------- repair order ---------------------------- *)

\* C17: when detect() is non-empty with minimum s, repair() returns exactly
\* the list s, s+1, ..., N-1, and every block from s on ends up linked to
\* the stored digest its predecessor has after the repair and sealed over
\* that link, whichever blocks after s were flagged.
C17_RepairLeftToRight ==
    [][(repair_step /\ DetectNow # <<>>)
       => LET s == Min(DetectNow)
              N == Len(chain)
          IN  /\ \A r \in RepairNow :
                    r.blocks = [j \in 1..(N - s) |-> s + j - 1]
              /\ \A i \in s..(N - 1) :
                    /\ blk(chain', i).previous_hash = blk(chain', i - 1).hash
                    /\ blk(chain', i).hash = calculate_hash(blk(chain', i))
                    /\ Known(leading_zeros', blk(chain', i).hash).lo
                       >= difficulty]_vars

\* a repair that found only block 1 of a three-block chain flagged, none
\* of the payloads being tampered, and re-sealed blocks 1 and 2
C17_Witness ==
    /\ store \in Repairing
    /\ Len(chain) = 3
    /\ ~SomeTamperedPayload(chain)
    /\ DetectNow = <<>>
    /\ \/ Len(fork_history) = 1 /\ fork_history[1].tampered_blocks = <<1>>
       \/ Len(repair_history) = 1 /\ store = "block_repair"
          /\ repair_history[1].blocks_repaired = <<1, 2>>

(* --------------------------- failure messages -------------------------- *)

\* the block indices a message names
IndicesNamed(msg) ==
    (IF msg.index >= 0 THEN {msg.index} ELSE {})
    \cup {msg.blocks[n] : n \in 1..Len(msg.blocks)}

\* C18: a failed verify() names the key that fails the prefix check when
\* it fails because of a key, and otherwise names a single block index,
\* the minimum of detect().
C18_VerifyNamesCulprit ==
    ~VerifyNow.ok
    => IF VerifyNow.msg.key # ""
       THEN /\ \E j \in 1..Len(KeyNames) : KeyNames[j] = VerifyNow.msg.key
            /\ ~KeyOk(shared_keys, VerifyNow.msg.key)
            /\ IndicesNamed(VerifyNow.msg) = {}
       ELSE /\ detect_tampering(chain) # <<>>
            /\ IndicesNamed(VerifyNow.msg) = {Min(detect_tampering(chain))}

(* -------------------------------- genesis ------------------------------ *)

\* the genesis block was changed since it was sealed, its stored digest
\* was not, every other block is as it was last sealed by
\* mine_pending_data and the shared keys are as constructed
GenesisOnlyChanged ==
    /\ blk(chain, 0) # blk(sealed, 0)
    /\ blk(chain, 0).hash = blk(sealed, 0).hash
    /\ \A i \in 1..(Len(chain) - 1) : Untouched(i)
    /\ key_writes = 0
    /\ genesis_calls = 0

\* C19: the genesis block is never digest-checked or link-checked: after a
\* change of genesis' nonce or previous_hash that leaves its stored digest
\* alone, detect() is empty and verify() succeeds; and no repair() changes
\* block 0.
C19_GenesisUnchecked ==
    [][/\ GenesisOnlyChanged
          => /\ DetectNow = <<>>
             /\ VerifyNow.ok
       /\ repair_step => blk(chain', 0) = blk(chain, 0)]_vars

(* ------------------------------ auto-repair ---------------------------- *)

\* C20: auto_repair_if_needed reports success only if verify() succeeds on
\* the ledger it leaves behind; when verify() still fails there, it
\* reports the failure outcome "issues remain".
C20_AutoRepairReportsVerify ==
    [][auto_repair_if_needed
       => \A r \in RepairNow :
             (VerifyNow.ok \/ (r.chain = chain' /\ r.zeros = leading_zeros'))
             => /\ auto_repair_result(r).ok
                   => verify_chain_integrity(store, chain',
                                             shared_keys').ok
                /\ ~verify_chain_integrity(store, chain', shared_keys').ok
                   => /\ ~auto_repair_result(r).ok
                      /\ auto_repair_result(r).msg.text =
                            "Repair attempted but issues remain: {message_after}"]_vars

(* ---------------------- failures during verification ------------------- *)

\* what blockchain.verify_chain_integrity() does in the current state
TryVerifyNow == try_verify_chain_integrity(store, chain, shared_keys)

\* C21: a failure raised by the serialisation primitive during
\* verification reaches the caller of the store's verify_integrity()
\* unchanged; it is not turned into a (false, message) result.
C21_FailurePropagates ==
    (vi_out.called /\ TryVerifyNow.raised)
    => IF vi_out.value.raised
       THEN vi_out.value.result = TryVerifyNow.result
       ELSE FALSE

\* C21, amended: a failure raised by the serialisation primitive during
\* verification is caught by the store's verify_integrity(), which sets
\* the verification flag to false and returns (false, message), the
\* message carrying the text of the failure.
C21_FailureReported ==
    (vi_out.called /\ TryVerifyNow.raised)
    => /\ ~vi_out.value.raised
       /\ ~vi_out.value.result.ok
       /\ vi_out.value.result.msg.text = ErrorText(store)
       /\ vi_out.value.result.msg.inner = TryVerifyNow.result
       /\ verification_state = Some(FALSE)

\* verify_integrity() has returned on a ledger whose block 2 cannot be
\* serialised
C21_Witness ==
    /\ vi_out.called
    /\ Len(chain) = 3
    /\ ~Serializable(blk(chain, 2))
    /\ TryVerifyNow.raised

(* -------------------------------- enqueue ------------------------------ *)

\* the identifiers of the entries waiting or sealed
IdsIn(c, pending) ==
    {pending[n].data_id : n \in 1..Len(pending)}
    \cup UNION {{EntriesOf(blk(c, i))[e].data_id :
                    e \in 1..Len(EntriesOf(blk(c, i)))} :
                 i \in 1..(Len(c) - 1)}

\* C22: add_data(payload) appends exactly one entry, the payload with an
\* identifier and a creation timestamp, at the end of pending_data,
\* returns that identifier, leaves the chain unchanged, and the identifier
\* differs from the one of every entry enqueued before.
C22_EnqueueAppendsOne ==
    [][\A data \in FreshPayloads \cup HeldEntries :
          add_data(data)
          => /\ Len(pending_data') = Len(pending_data) + 1
             /\ SubSeq(pending_data', 1, Len(pending_data)) = pending_data
             /\ Last(pending_data').content = data.content
             /\ Last(pending_data').timestamp > clock
             /\ add_ret' = Returned(Last(pending_data').data_id)
             /\ add_ret'.value \notin IdsIn(chain, pending_data)
             /\ chain' = chain]_vars

(* ----------------------------- chain shape ----------------------------- *)

\* the chain is non-empty and the block at position i has index i
Contiguous(c) ==
    /\ Len(c) >= 1
    /\ \A i \in 0..(Len(c) - 1) : blk(c, i).index = i

Uncovered(c, i) ==
    blk(c, i).data.merkle_root # calculate_merkle_root(EntriesOf(blk(c, i)))

\* C24: when every operation runs to completion before the next starts,
\* no sealed block holds an entry that its merkle_root does not cover, and
\* every sealed block's stored digest matches its contents; without that
\* exclusion an add_data between the computation of the merkle root and
\* the clearing of pending_data leaves such a block behind.
C24_AtomicSealCovers ==
    (atomic /\ rc_pc = "idle")
    => \A i \in 1..(Len(chain) - 1) :
          /\ blk(chain, i) = blk(sealed, i)
          /\ ~HashBad(chain, i)
          /\ ~Uncovered(chain, i)

\* a sealing has finished and left a block with an entry that was added
\* while it ran: the merkle root does not cover it, the stored digest does
\* not match, and the entry is no longer pending
C24_Witness ==
    /\ ~atomic
    /\ rc_pc = "idle"
    /\ pending_data = <<>>
    /\ Len(chain) = 2
    /\ Len(EntriesOf(blk(chain, 1))) = 2
    /\ Uncovered(chain, 1)
    /\ HashBad(chain, 1)

\* the same with an entry added after the merkle root was computed and
\* before the first digest was taken: the merkle root does not cover it,
\* the stored digest does
C24_WitnessDigestCovers ==
    /\ ~atomic
    /\ rc_pc = "idle"
    /\ pending_data = <<>>
    /\ Len(chain) = 2
    /\ Len(EntriesOf(blk(chain, 1))) = 2
    /\ Uncovered(chain, 1)
    /\ ~HashBad(chain, 1)

\* the same with an entry added inside the search for the nonce: the
\* first digest, which failed the test, was taken without it, the digest
\* that passed covers it, and the merkle root does not
C24_WitnessInsideSearch ==
    /\ ~atomic
    /\ rc_pc = "idle"
    /\ pending_data = <<>>
    /\ Len(chain) = 2
    /\ Len(EntriesOf(blk(chain, 1))) = 2
    /\ blk(chain, 1).nonce > 0
    /\ Uncovered(chain, 1)
    /\ ~HashBad(chain, 1)
    /\ FailsPrefix(calculate_hash(
                       [blk(chain, 1) EXCEPT
                           !.nonce = 0,
                           !.data.entries = <<@[1]>>]),
                   difficulty)

(* ----------------------- repair is not restoration --------------------- *)

\* entry e of block k holds a priority written in place after signing
TamperedEntry(c, k, e) ==
    /\ k \in 1..(Len(c) - 1)
    /\ e \in 1..Len(EntriesOf(blk(c, k)))
    /\ EntriesOf(blk(c, k))[e].content.priority \in TamperPriorities

\* C25: after the signed content of an entry of block k was changed in
\* place and repair() has run, verify() returns true, the block still
\* holds the changed value, and verifying the entry's envelope, as
\* retrieve_network_slice does, still returns none.
C25_RepairKeepsTamper ==
    [][\A k \in 1..(MaxChain - 1), e \in 1..MaxPending :
          (repair_step /\ TamperedEntry(chain, k, e))
          => /\ verify_chain_integrity(store, chain', shared_keys').ok
             /\ EntriesOf(blk(chain', k))[e].content =
                   EntriesOf(blk(chain, k))[e].content
             /\ verify_signed_data(EntriesOf(blk(chain', k))[e].content,
                                   shared_keys') = None
             /\ retrieve_network_slice(chain', shared_keys', "consumer-1")
                   # Some(EntriesOf(blk(chain', k))[e].content)
             /\ retrieve_network_slice(chain', shared_keys', "emergency-1")
                   # Some(EntriesOf(blk(chain', k))[e].content)]_vars

(* ------------------------ the two axes of validity --------------------- *)

\* which shared keys pass the prefix check
KeyChecks(keys) == [j \in 1..Len(KeyNames) |-> KeyOk(keys, KeyNames[j])]

\* C26: verify() returns true exactly when detect() is empty and every
\* shared key passes its prefix check; writing a shared key leaves detect()
\* as it was, and makes verify() false when the written key fails the
\* check; changing a block never changes the outcome of any key check.
C26_VerifyIsDetectAndKeys ==
    [][/\ VerifyNow.ok <=> (DetectNow = <<>> /\ KeysValid(shared_keys))
       /\ verify_chain_integrity(store, chain', shared_keys').ok
          <=> (detect(store, chain') = <<>> /\ KeysValid(shared_keys'))
       /\ key_writes' # key_writes
          => /\ detect(store, chain') = DetectNow
             /\ ~KeysValid(shared_keys')
                => ~verify_chain_integrity(store, chain', shared_keys').ok
       /\ chain' # chain /\ ~repair_step /\ ~auto_repair_if_needed
          => KeyChecks(shared_keys') = KeyChecks(shared_keys)]_vars

\* key corruption alone on the key-fixed store: one key was overwritten,
\* no block is flagged, and verify() fails naming that key
C26_Witness ==
    /\ store = "block_repair"
    /\ key_writes = 1
    /\ shared_keys.primary = TamperedKey
    /\ Len(chain) = 3
    /\ DetectNow = <<>>
    /\ ~VerifyNow.ok
    /\ VerifyNow.msg.key = "primary"

(* ------------------------------ proof of work -------------------------- *)

\* C27: the stored digest of every block, genesis included, begins with
\* difficulty zero characters, unless it was written out of band.
C27_DigestsMeetDifficulty ==
    \A i \in 0..(Len(chain) - 1) :
        blk(chain, i).hash # ForgedHash
        => HasZeroPrefix(blk(chain, i).hash, difficulty)

\* a three-block chain repaired after a payload was tampered with: the
\* re-sealed blocks took a search (their nonce is not 0) and meet the
\* difficulty
C27_Witness ==
    /\ Len(chain) = 3
    /\ SomeTamperedPayload(chain)
    /\ Len(fork_history) + Len(repair_history) >= 1
    /\ DetectNow = <<>>
    /\ blk(chain, 1).nonce > 0
    /\ \A i \in 0..2 : HasZeroPrefix(blk(chain, i).hash, difficulty)

(* --------------------------- append-only trail ------------------------- *)

\* the ledger is Tampered: some block is flagged or some key is corrupted
Tampered == DetectNow # <<>> \/ ~KeysValid(shared_keys)

\* C28: the audit trail is append-only: every step keeps the records it
\* holds, unchanged and in place; a repair() of a Tampered ledger adds
\* exactly one record, and a repair() of a Clean ledger and every
\* operation other than a repair add none.
C28_TrailAppendOnly ==
    [][LET before == AuditTrail(store, fork_history, repair_history)
           after == AuditTrail(store, fork_history', repair_history')
       IN  /\ Len(after) >= Len(before)
           /\ SubSeq(after, 1, Len(before)) = before
           /\ (repair_step /\ Tampered) => Len(after) = Len(before) + 1
           /\ (repair_step /\ ~Tampered) => Len(after) = Len(before)
           /\ ~(repair_step \/ auto_repair_if_needed)
              => Len(after) = Len(before)]_vars

(* ------------------------ appending never heals ------------------------ *)

\* an enqueue, a seal or a store of one slice
Appends ==
    \/ \E data \in FreshPayloads \cup HeldEntries : add_data(data)
    \/ mine_pending_data
    \/ \E d \in Slices : store_network_slice(d)

\* C30: appending never heals a ledger: enqueue, seal_pending and the
\* store of a slice change no existing block; a block they add links to
\* the stored digest of the block before it and is not flagged; detect()
\* after the call equals detect() before it, and a verify() that was
\* false stays false.
C30_AppendNeverHeals ==
    [][Appends
       => /\ SubSeq(chain', 1, Len(chain)) = chain
          /\ Len(chain') > Len(chain)
             => /\ Len(chain') = Len(chain) + 1
                /\ Last(chain').previous_hash = Last(chain).hash
                /\ ~HashBad(chain', Len(chain))
                /\ ~LinkBad(chain', Len(chain))
          /\ detect(store, chain') = DetectNow
          /\ ~VerifyNow.ok
             => ~verify_chain_integrity(store, chain', shared_keys').ok]_vars

(* -------------------------- no entry lost ------------------------------ *)

\* the data_id of each entry of a list, in order
IdsOf(entries) == [n \in 1..Len(entries) |-> entries[n].data_id]

\* C31: no enqueued entry is lost or duplicated: the entries of the
\* blocks in chain order followed by the pending entries are the entries
\* enqueued so far, each exactly once and in enqueue order (identifiers
\* are handed out in enqueue order, 1 .. next_id - 1).
C31_NoEntryLostOrDuplicated ==
    IdsOf(ChainEntries(chain) \o pending_data)
    = [n \in 1..(next_id - 1) |-> n]

(* --------------------------- a forged digest --------------------------- *)

\* only the stored digest of block k differs from what was last sealed,
\* and every other block is as sealed
DigestOnlyForged(k) ==
    /\ k \in 1..(Len(chain) - 1)
    /\ blk(chain, k).hash # blk(sealed, k).hash
    /\ [blk(chain, k) EXCEPT !.hash = blk(sealed, k).hash] = blk(sealed, k)
    /\ \A j \in 0..(Len(chain) - 1) : j # k => Untouched(j)

\* C32: when only the stored digest of a non-genesis block k of a
\* consistent chain is overwritten with a different value, detect()
\* returns exactly [k, k+1] if k is not the last block (k fails the
\* self-digest check, k+1 the link check) and [k] if it is.
C32_ForgedDigestFlagsTwo ==
    [][\A k \in 1..(Len(chain) - 1) :
          (tamper_hash(k) /\ DetectNow = <<>>)
          => /\ HashBad(chain', k)
             /\ k < Len(chain) - 1
                => /\ ~HashBad(chain', k + 1)
                   /\ LinkBad(chain', k + 1)
             /\ detect(store, chain')
                = IF k < Len(chain) - 1 THEN <<k, k + 1>> ELSE <<k>>]_vars

\* the digest of block 1 of three blocks was forged and detect() returns
\* [1, 2]
C32_Witness ==
    /\ Len(chain) = 3
    /\ DigestOnlyForged(1)
    /\ DetectNow = <<1, 2>>

\* the digest of the last block was forged and detect() returns it alone
C32_WitnessLast ==
    /\ Len(chain) = 3
    /\ DigestOnlyForged(2)
    /\ DetectNow = <<2>>

(* ----------------------------- storing a slice ------------------------- *)

\* C33: store_network_slice enqueues one signed entry and seals at once:
\* it appends exactly one block whose entries are the waiting entries
\* followed by the new one (exactly the new one when nothing was
\* waiting), leaves pending empty, and returns an identifier for which
\* get_data_by_id finds the new entry, whose content is the signed slice.
C33_StoreSealsOneEntry ==
    [][\A d \in Slices :
          store_network_slice(d)
          => /\ Len(chain') = Len(chain) + 1
             /\ SubSeq(chain', 1, Len(chain)) = chain
             /\ Len(Last(chain').data.entries) = Len(pending_data) + 1
             /\ SubSeq(Last(chain').data.entries, 1, Len(pending_data))
                = pending_data
             /\ pending_data' = <<>>
             /\ add_ret'.called
             /\ get_data_by_id(chain', add_ret'.value)
                = Some(Last(Last(chain').data.entries))
             /\ Last(Last(chain').data.entries).type = "network_slice"
             /\ Last(Last(chain').data.entries).content
                = sign_data(d, shared_keys, clock)]_vars

\* a store_network_slice on an empty pending list has just returned: the
\* last block holds one entry, the one get_data_by_id finds for the
\* returned identifier
C33_Witness ==
    /\ add_ret.called
    /\ seal_ret = Returned(Some(Last(chain)))
    /\ Len(EntriesOf(Last(chain))) = 1
    /\ get_data_by_id(chain, add_ret.value)
       = Some(EntriesOf(Last(chain))[1])
    /\ pending_data = <<>>

(* ---------------------------- retrieving a slice ----------------------- *)

\* the slice identifiers asked for: those stored and one never stored
SliceIds == {d.slice_id : d \in Slices} \cup {"iot-1"}

\* the contents with the given slice_id, in chain order
Matching(c, slice_id) ==
    SelectSeq(ContentsOf(ChainEntries(c)),
              LAMBDA content : content.slice_id = slice_id)

\* the signature of a signed content is the one the current verification
\* key gives for its other fields
SignedByCurrentKey(content, keys) ==
    content.signature
    = sha256(DumpSlice([k \in DOMAIN content \ {"signature", "signed_at"}
                           |-> content[k]])
             \o KeyString(keys.verification))

\* C34: retrieve_network_slice(slice_id) decides on the
\* earliest entry in chain order whose content has that slice_id,
\* whatever its type: it returns that content
\* if its signature verifies against the current verification key and
\* none otherwise, whatever later entries with the same slice_id hold;
\* it returns none when no entry matches.
C34_RetrieveFirstMatch ==
    \A id \in SliceIds :
       retrieve_network_slice(chain, shared_keys, id)
       = IF Matching(chain, id) = <<>> THEN None
         ELSE IF SignedByCurrentKey(Matching(chain, id)[1], shared_keys)
              THEN Some(Matching(chain, id)[1])
              ELSE None

\* the contents, with the given slice_id, of the entries of type
\* network_slice, in chain order
MatchingSlices(c, slice_id) ==
    SelectSeq(ContentsOf(SelectSeq(ChainEntries(c), IsSliceEntry)),
              LAMBDA content : content.slice_id = slice_id)

\* C34, amended: retrieve_network_slice(slice_id) decides on the
\* earliest entry of type network_slice in chain order whose content has
\* that slice_id: it returns that content if its signature verifies
\* against the current verification key and none otherwise, whatever
\* later entries with the same slice_id hold; it returns none when no
\* such entry matches.
C34_RetrieveFirstSliceEntry ==
    \A id \in SliceIds :
       retrieve_network_slice(chain, shared_keys, id)
       = IF MatchingSlices(chain, id) = <<>> THEN None
         ELSE IF SignedByCurrentKey(MatchingSlices(chain, id)[1],
                                    shared_keys)
              THEN Some(MatchingSlices(chain, id)[1])
              ELSE None

\* two blocks hold an entry of type network_slice with the same
\* slice_id; the earlier one no longer verifies, the later one does, and
\* the slice is not returned
C34_Witness ==
    \E id \in SliceIds :
       /\ Len(MatchingSlices(chain, id)) = 2
       /\ ~SignedByCurrentKey(MatchingSlices(chain, id)[1], shared_keys)
       /\ SignedByCurrentKey(MatchingSlices(chain, id)[2], shared_keys)
       /\ retrieve_network_slice(chain, shared_keys, id) = None

\* the earliest entry with a slice_id is no longer of type network_slice
\* and the later entry with that slice_id is the one returned
C34_WitnessSkipped ==
    \E id \in SliceIds :
       /\ Len(Matching(chain, id)) = 2
       /\ Len(MatchingSlices(chain, id)) = 1
       /\ retrieve_network_slice(chain, shared_keys, id)
          = Some(Matching(chain, id)[2])

(* ------------------------ what sealing looks at ------------------------ *)

\* C35: mine_block(difficulty) tests only the stored digest: when the
\* stored digest already begins with difficulty zeros (always so for
\* difficulty 0) the block is left as it is, nonce and digest included,
\* even if the stored digest is stale; otherwise the nonce ends larger
\* than it started, the digest is the one recomputed from the final
\* nonce and begins with difficulty zeros, and nothing else changes.
C35_SealTestsStoredDigest ==
    mb_out.called
    => /\ HasZeroPrefix(mb_block[1].hash, mb_difficulty)
          => mb_out.value = mb_block[1]
       /\ mb_difficulty = 0 => mb_out.value = mb_block[1]
       /\ ~HasZeroPrefix(mb_block[1].hash, mb_difficulty)
          => /\ mb_out.value.nonce > mb_block[1].nonce
             /\ mb_out.value.hash = calculate_hash(mb_out.value)
             /\ HasZeroPrefix(mb_out.value.hash, mb_difficulty)
       /\ [mb_out.value EXCEPT !.nonce = 0, !.hash = <<>>]
          = [mb_block[1] EXCEPT !.nonce = 0, !.hash = <<>>]

\* a block whose stale stored digest begins with two zeros came back
\* from mine_block(2) unchanged, though the digest of its fields was
\* seen, in an earlier search, not to begin with two zeros
C35_Witness ==
    /\ mb_out.called
    /\ mb_difficulty = 2
    /\ mb_block[1].hash # calculate_hash(mb_block[1])
    /\ FailsPrefix(calculate_hash(mb_block[1]), mb_difficulty)
    /\ HasZeroPrefix(mb_block[1].hash, mb_difficulty)
    /\ mb_out.value = mb_block[1]

\* a block with a stale stored digest and a nonce above zero was mined
\* to a larger nonce
C35_WitnessSearch ==
    /\ mb_out.called
    /\ mb_block[1].nonce > 0
    /\ mb_block[1].hash # calculate_hash(mb_block[1])
    /\ mb_out.value.nonce > mb_block[1].nonce + 1

====
